---- MODULE Spec2Model ----
(***************************************************************************)
(* Verification model of the x402 TypeScript packages:                     *)
(*   - x402-next: paymentMiddleware and withX402 (verify / serve / settle) *)
(*   - x402 shared/sui: simulate / sign / verify-signature helpers         *)
(*   - site/app/facilitator: POST /verify and POST /settle routes          *)
(* Each subsystem has its own variable and its own specification.          *)
(***************************************************************************)
EXTENDS Integers, Sequences, FiniteSets, TLC

VARIABLES req, sg, vs, fac, ph, hc, call

vars == <<req, sg, vs, fac, ph, hc, call>>

(***************************************************************************)
(* Part 1.  x402-next: paymentMiddleware and withX402                      *)
(***************************************************************************)

\* Number of HTTP requests handled concurrently.
NumRequests == 2

Requests == 1..NumRequests

\* Payment payloads a client may put in the X-PAYMENT header.
Payloads == {"p1", "p2"}

\* Payment requirements the server may offer for the route.
Requirements == {"q1", "q2"}

\* Values of request.headers.get("X-PAYMENT"): null, an undecodable string,
\* or the encoding of a payload.
Headers == {"none", "garbled"} \cup Payloads

\* Statuses a protected route handler may answer with.
HandlerStatuses == {200, 400}

NoPayment == [decodedPayment |-> "none", selectedRequirements |-> "none"]

NoResponse == [kind |-> "none", status |-> 0, paymentResponse |-> FALSE]

IdleRequest ==
  [ pc            |-> "idle",
    entry         |-> "none",
    matched       |-> FALSE,
    header        |-> "none",
    verifyCalls   |-> 0,
    verifyResult  |-> "none",
    verified      |-> NoPayment,
    handlerRuns   |-> 0,
    handlerStatus |-> 0,
    settleCalls   |-> 0,
    settleArgs    |-> NoPayment,
    response      |-> NoResponse ]

\* A request arrives at one of the two entry points.  For the middleware the
\* route may or may not be one of the configured protected routes.
Receive(r) ==
  /\ req[r].pc = "idle"
  /\ \E e \in {"middleware", "withX402"}, h \in Headers, matches \in BOOLEAN :
       /\ (e = "withX402") => matches
       /\ req' = [req EXCEPT ![r] =
            IF matches
              THEN [@ EXCEPT !.pc = "start", !.entry = e, !.header = h,
                             !.matched = TRUE]
              ELSE \* findMatchingRoute found nothing: NextResponse.next()
                   [@ EXCEPT !.pc = "route", !.entry = e, !.header = h,
                             !.response = [kind |-> "next", status |-> 200,
                                           paymentResponse |-> FALSE]]]
  /\ UNCHANGED <<sg, vs, fac, ph, hc, call>>

\* if (!paymentHeader) return handleMissingPaymentHeader(...)
CheckPaymentHeaderMutant(r) ==
  /\ req[r].pc = "start"
  /\ req' = [req EXCEPT ![r] = [@ EXCEPT !.pc = "verify"]]
  /\ UNCHANGED <<sg, vs, fac, ph, hc, call>>

CheckPaymentHeader(r) ==
  /\ req[r].pc = "start"
  /\ req' = [req EXCEPT ![r] =
       IF @.header = "none"
         THEN [@ EXCEPT !.pc = "done",
                        !.response = [kind |-> "paymentRequired", status |-> 402,
                                      paymentResponse |-> FALSE]]
         ELSE [@ EXCEPT !.pc = "verify"]]
  /\ UNCHANGED <<sg, vs, fac, ph, hc, call>>

\* utils.verifyPayment: decodes the header, selects the matching requirements
\* and calls the facilitator's verify once.  Returns either {error} or
\* {decodedPayment, selectedRequirements}.
verifyPayment(rq, selected, outcome) ==
  IF rq.header = "garbled" \/ selected = "nomatch"
    THEN [rq EXCEPT !.verifyResult = "error",
                    !.response = [kind |-> "verifyError", status |-> 402,
                                  paymentResponse |-> FALSE]]
    ELSE IF outcome = "valid"
      THEN [rq EXCEPT !.verifyCalls = @ + 1,
                      !.verifyResult = "ok",
                      !.verified = [decodedPayment |-> rq.header,
                                    selectedRequirements |-> selected]]
      ELSE [rq EXCEPT !.verifyCalls = @ + 1,
                      !.verifyResult = "error",
                      !.response = [kind |-> "verifyError", status |-> 402,
                                    paymentResponse |-> FALSE]]

\* if ("error" in verificationResult) return verificationResult.error
AfterVerifyMutant(rq) ==
  [rq EXCEPT !.pc = "serve"]

AfterVerify(rq) ==
  IF rq.verifyResult = "error"
    THEN [rq EXCEPT !.pc = "done"]
    ELSE [rq EXCEPT !.pc = "serve"]

VerifyStep(r) ==
  /\ req[r].pc = "verify"
  /\ \E selected \in Requirements \cup {"nomatch"},
        outcome \in {"valid", "invalid", "threw"} :
       req' = [req EXCEPT ![r] = AfterVerify(verifyPayment(@, selected, outcome))]
  /\ UNCHANGED <<sg, vs, fac, ph, hc, call>>


\* withX402: const response = await handler(request)
ServeWithX402(rq, status) ==
  [rq EXCEPT !.pc = "gate",
             !.handlerRuns = @ + 1,
             !.handlerStatus = status,
             !.response = [kind |-> "handler", status |-> status,
                           paymentResponse |-> FALSE]]

\* paymentMiddleware: const response = await NextResponse.next().  The value
\* is the framework's pass-through marker (status 200); the route handler has
\* not run yet and runs only after the middleware has returned this marker.
ServeMiddleware(rq) ==
  [rq EXCEPT !.pc = "gate",
             !.response = [kind |-> "next", status |-> 200,
                           paymentResponse |-> FALSE]]

Serve(r) ==
  /\ req[r].pc = "serve"
  /\ \/ /\ req[r].entry = "withX402"
        /\ \E status \in HandlerStatuses :
             req' = [req EXCEPT ![r] = ServeWithX402(@, status)]
     \/ /\ req[r].entry = "withX402"
        \* the handler rejects: the wrapper rejects with it
        /\ req' = [req EXCEPT ![r] =
             [@ EXCEPT !.pc = "done", !.handlerRuns = @ + 1,
                       !.response = [kind |-> "threw", status |-> 500,
                                     paymentResponse |-> FALSE]]]
     \/ /\ req[r].entry = "middleware"
        /\ req' = [req EXCEPT ![r] = ServeMiddleware(@)]
  /\ UNCHANGED <<sg, vs, fac, ph, hc, call>>

\* if (response.status >= 400) return response
SkipSettleMutant(status) == status > 400

SkipSettle(status) == status >= 400

\* the payload and requirements handed to settlePayment
SettleArguments(rq) ==
  [decodedPayment |-> rq.verified.decodedPayment,
   selectedRequirements |-> rq.verified.selectedRequirements]

\* utils.settlePayment, first half: calls the facilitator's settle once with
\* the payload and requirements it was given.
settlePaymentCall(rq, args) ==
  [rq EXCEPT !.pc = "settling", !.settleCalls = @ + 1, !.settleArgs = args]

\* utils.settlePayment, second half: on success the response gets the
\* X-PAYMENT-RESPONSE header; a failure is answered with 402 or leaves the
\* response without the header.
settlePaymentReturn(rq, outcome, reported) ==
  IF outcome = "success"
    THEN [rq EXCEPT !.response.paymentResponse = TRUE]
    ELSE IF outcome = "threw" \/ reported
      THEN [rq EXCEPT !.response = [kind |-> "settleError", status |-> 402,
                                    paymentResponse |-> FALSE]]
      ELSE rq

\* What happens to the value the entry point returned: a middleware's
\* pass-through marker makes the framework run the route handler.
Returned(rq) ==
  IF rq.entry = "middleware" /\ rq.response.kind = "next"
    THEN [rq EXCEPT !.pc = "route"]
    ELSE [rq EXCEPT !.pc = "done"]

GateMutant(rq) ==
  IF SkipSettle(rq.response.status)
    THEN Returned(rq)
    ELSE settlePaymentCall(settlePaymentCall(rq, SettleArguments(rq)),
                           SettleArguments(rq))

Gate(rq) ==
  IF SkipSettle(rq.response.status)
    THEN Returned(rq)
    ELSE settlePaymentCall(rq, SettleArguments(rq))

GateStep(r) ==
  /\ req[r].pc = "gate"
  /\ req' = [req EXCEPT ![r] = Gate(@)]
  /\ UNCHANGED <<sg, vs, fac, ph, hc, call>>

SettleReturns(r) ==
  /\ req[r].pc = "settling"
  /\ \E outcome \in {"success", "failure", "threw"}, reported \in BOOLEAN :
       /\ (outcome # "failure") => reported
       /\ req' = [req EXCEPT ![r] =
                    Returned(settlePaymentReturn(@, outcome, reported))]
  /\ UNCHANGED <<sg, vs, fac, ph, hc, call>>

\* The framework runs the route handler behind the middleware.
RouteRuns(r) ==
  /\ req[r].pc = "route"
  /\ \E status \in HandlerStatuses :
       req' = [req EXCEPT ![r] =
         [@ EXCEPT !.pc = "done", !.handlerRuns = @ + 1,
                   !.handlerStatus = status,
                   !.response = [kind |-> "handler", status |-> status,
                                 paymentResponse |-> @.paymentResponse]]]
  /\ UNCHANGED <<sg, vs, fac, ph, hc, call>>

IdleSign == [pc |-> "off"]
IdleSig == [pc |-> "off"]
IdleFac == [pc |-> "off"]

Init ==
  /\ req = [r \in Requests |-> IdleRequest]
  /\ sg = IdleSign
  /\ vs = IdleSig
  /\ fac = IdleFac
  /\ ph = [pc |-> "off"]
  /\ hc = [pc |-> "off"]
  /\ call = [pc |-> "off"]

Next ==
  \E r \in Requests :
    \/ Receive(r)
    \/ CheckPaymentHeader(r)
    \/ VerifyStep(r)
    \/ Serve(r)
    \/ GateStep(r)
    \/ SettleReturns(r)
    \/ RouteRuns(r)

Spec == Init /\ [][Next]_vars


(***************************************************************************)
(* Claims about x402-next                                                  *)
(***************************************************************************)

\* The wrapped handler of a withX402 request has returned a response.
HandlerReturned(rq) == rq.handlerRuns > 0 /\ rq.handlerStatus # 0

\* C1: in withX402, for a request that passed verification, a handler
\* response with status >= 400 is followed by no settle call, and a handler
\* response with status < 400 by exactly one settle call, made with the
\* decoded payload and the selected requirements that verification returned.
C1_WithX402SettleGating ==
  \A r \in Requests :
    req[r].entry = "withX402" =>
      /\ req[r].settleCalls <= 1
      /\ (req[r].settleCalls = 1) =>
           /\ req[r].verifyResult = "ok"
           /\ HandlerReturned(req[r])
           /\ req[r].handlerStatus < 400
           /\ req[r].settleArgs = req[r].verified
      /\ (HandlerReturned(req[r]) /\ req[r].pc \in {"settling", "done"}) =>
           IF req[r].handlerStatus >= 400
             THEN req[r].settleCalls = 0
             ELSE req[r].settleCalls = 1

\* One withX402 request was served with status >= 400 and not settled, the
\* other was served with status < 400 and settled once with what was verified.
C1_Witness ==
  /\ req[1].entry = "withX402" /\ req[1].pc = "done"
  /\ req[1].verifyResult = "ok" /\ req[1].handlerStatus = 400
  /\ req[1].settleCalls = 0
  /\ req[2].entry = "withX402" /\ req[2].pc = "done"
  /\ req[2].handlerStatus = 200 /\ req[2].settleCalls = 1
  /\ req[2].settleArgs = [decodedPayment |-> "p2", selectedRequirements |-> "q2"]

\* C2: in paymentMiddleware, a request that passed verification and whose
\* protected route handler answers with status >= 400 has no settle call.
C2_MiddlewareSettleGating ==
  \A r \in Requests :
    ( /\ req[r].entry = "middleware"
      /\ req[r].verifyResult = "ok"
      /\ HandlerReturned(req[r])
      /\ req[r].handlerStatus >= 400 ) => req[r].settleCalls = 0

\* C3: when verifyPayment returns an error the error response is what the
\* request is answered with, and neither the protected handler nor settle is
\* invoked for that request, in paymentMiddleware and in withX402.
C3_FailedVerifyNeverSettled ==
  \A r \in Requests :
    req[r].verifyResult = "error" =>
      /\ req[r].pc = "done"
      /\ req[r].response.kind = "verifyError"
      /\ req[r].handlerRuns = 0
      /\ req[r].settleCalls = 0

\* Both entry points have rejected a request at verification, one of them
\* after the facilitator's verify was called.
C3_Witness ==
  /\ req[1].entry = "middleware" /\ req[1].verifyResult = "error"
  /\ req[1].verifyCalls = 1 /\ req[1].pc = "done"
  /\ req[2].entry = "withX402" /\ req[2].verifyResult = "error"
  /\ req[2].pc = "done"

\* C4: under any interleaving of the requests, a request causes at most one
\* verify call and at most one settle call, and a step of one request leaves
\* the state of every other request as it was.
C4_PerRequestIsolation ==
  [][ /\ \A r \in Requests : req'[r].verifyCalls <= 1 /\ req'[r].settleCalls <= 1
      /\ \A r, q \in Requests :
           (r # q /\ req'[r] # req[r]) => req'[q] = req[q] ]_vars

\* Two requests carrying the same payload are in flight at the same time,
\* each verified once and each with its settle call outstanding.
C4_Witness ==
  /\ req[1].pc = "settling" /\ req[2].pc = "settling"
  /\ req[1].header = req[2].header
  /\ req[1].verifyCalls = 1 /\ req[2].verifyCalls = 1
  /\ req[1].settleCalls = 1 /\ req[2].settleCalls = 1


(***************************************************************************)
(* Base64 of @mysten/sui/utils, used by Parts 2, 3, 5 and 9                *)
(***************************************************************************)

PadChar == 64
BadChar == 65

\* toBase64 of @mysten/sui/utils
toBase64(b) ==
  LET n == Len(b)
      groups == (n + 2) \div 3
      byteAt(i) == IF i <= n THEN b[i] ELSE 0
      sextet(i) ==
        LET g == (i - 1) \div 4
            b1 == byteAt(3 * g + 1)
            b2 == byteAt(3 * g + 2)
            b3 == byteAt(3 * g + 3)
            k == (i - 1) % 4
        IN  IF k = 0 THEN b1 \div 4
            ELSE IF k = 1 THEN (b1 % 4) * 16 + (b2 \div 16)
            ELSE IF k = 2 THEN (b2 % 16) * 4 + (b3 \div 64)
            ELSE b3 % 64
      pads == IF n % 3 = 0 THEN 0 ELSE 3 - (n % 3)
  IN  [i \in 1..(4 * groups) |->
         IF i > 4 * groups - pads THEN PadChar ELSE sextet(i)]

\* The string with its trailing padding removed, as atob does.
StripPadding(s) ==
  LET n == Len(s) IN
    IF n > 0 /\ n % 4 = 0 /\ s[n] = PadChar
      THEN IF s[n - 1] = PadChar THEN SubSeq(s, 1, n - 2) ELSE SubSeq(s, 1, n - 1)
      ELSE s

\* Whether fromBase64 decodes the string (otherwise it throws).
IsBase64(s) ==
  LET t == StripPadding(s) IN
    /\ Len(t) % 4 # 1
    /\ \A i \in 1..Len(t) : t[i] \in 0..63

\* fromBase64 of @mysten/sui/utils, for a string it decodes
fromBase64(s) ==
  LET t == StripPadding(s)
      n == (Len(t) * 3) \div 4
      charAt(i) == IF i <= Len(t) THEN t[i] ELSE 0
      byte(i) ==
        LET g == (i - 1) \div 3
            c1 == charAt(4 * g + 1)
            c2 == charAt(4 * g + 2)
            c3 == charAt(4 * g + 3)
            c4 == charAt(4 * g + 4)
            k == (i - 1) % 3
        IN  IF k = 0 THEN c1 * 4 + (c2 \div 16)
            ELSE IF k = 1 THEN (c2 % 16) * 16 + (c3 \div 4)
            ELSE (c3 % 4) * 64 + c4
  IN  [i \in 1..n |-> byte(i)]


(***************************************************************************)
(* Part 2.  shared/sui/transaction.ts: simulate and sign helpers           *)
(***************************************************************************)

\* The shapes a signer object can have, as far as the code inspects it:
\* whether it has a signTransaction member and whether that is callable,
\* whether it has signMessage / signPersonalMessage, and whether its signing
\* call resolves or rejects.
SignerShapes ==
  [ signTransaction     : {"absent", "value", "function"},
    signMessage         : BOOLEAN,
    signPersonalMessage : BOOLEAN,
    signs               : BOOLEAN ]

SignFunctions ==
  {"simulateTransaction", "signTransactionWithSigner", "signAndSimulateTransaction"}

\* Outcomes of rpc.dryRunTransactionBlock: the call rejects, or it resolves
\* with effects whose execution status is success or failure.
DryRunOutcomes == {"rejected", "success", "failure"}

IdleSigner ==
  [signTransaction |-> "absent", signMessage |-> FALSE,
   signPersonalMessage |-> FALSE, signs |-> FALSE]

ReadySign ==
  [ pc             |-> "idle",
    fn             |-> "none",
    signer         |-> IdleSigner,
    buildCalls     |-> 0,
    dryRunCalls    |-> 0,
    simulateResult |-> "none",
    simulateError  |-> "none",
    signCalls      |-> 0,
    signArg        |-> "none",
    built          |-> << >>,
    signerBytes    |-> << >>,
    transactionBytes |-> << >>,
    result         |-> "none",
    error          |-> "none" ]

\* A caller invokes one of the three exported helpers.
SignInvoke ==
  /\ sg.pc = "idle"
  /\ \E f \in SignFunctions, s \in SignerShapes :
       sg' = [sg EXCEPT !.fn = f, !.signer = s,
                        !.pc = IF f = "signTransactionWithSigner"
                                 THEN "signBuild" ELSE "simulateBuild"]
  /\ UNCHANGED <<req, vs, fac, ph, hc, call>>

\* signAndSimulateTransaction: const simulateResult = await simulateTransaction(...)
\* A rejection of simulateTransaction propagates; otherwise signing follows.
AfterSimulateMutant(st) ==
  IF st.fn = "simulateTransaction"
    THEN [st EXCEPT !.pc = "done",
                    !.result = IF st.simulateError = "none" THEN "simulateResult" ELSE "none",
                    !.error = st.simulateError]
    ELSE [st EXCEPT !.pc = "signBuild"]

AfterSimulate(st) ==
  IF st.fn = "simulateTransaction"
    THEN [st EXCEPT !.pc = "done",
                    !.result = IF st.simulateError = "none" THEN "simulateResult" ELSE "none",
                    !.error = st.simulateError]
    ELSE IF st.simulateError # "none"
      THEN [st EXCEPT !.pc = "done", !.error = st.simulateError]
      ELSE [st EXCEPT !.pc = "signBuild"]

\* simulateTransaction: transaction.build({client: rpc}) inside the try block
SimulateBuild ==
  /\ sg.pc = "simulateBuild"
  /\ \E ok \in BOOLEAN :
       sg' = IF ok
               THEN [sg EXCEPT !.pc = "dryRun", !.buildCalls = @ + 1]
               ELSE AfterSimulate([sg EXCEPT !.buildCalls = @ + 1,
                      !.simulateError = "transaction_simulation_failed"])
  /\ UNCHANGED <<req, vs, fac, ph, hc, call>>

\* simulateTransaction: the value returned for a dry-run that resolved, or
\* the error thrown for one that rejected.
simulateTransactionResultMutant(st, outcome) ==
  IF outcome = "rejected"
    THEN [st EXCEPT !.dryRunCalls = @ + 1, !.simulateError = "rpc error"]
    ELSE [st EXCEPT !.dryRunCalls = @ + 2, !.simulateResult = outcome]

simulateTransactionResult(st, outcome) ==
  IF outcome = "rejected"
    THEN [st EXCEPT !.dryRunCalls = @ + 1,
                    !.simulateError = "transaction_simulation_failed"]
    ELSE [st EXCEPT !.dryRunCalls = @ + 1, !.simulateResult = outcome]

DryRun ==
  /\ sg.pc = "dryRun"
  /\ \E outcome \in DryRunOutcomes :
       sg' = AfterSimulate(simulateTransactionResult(sg, outcome))
  /\ UNCHANGED <<req, vs, fac, ph, hc, call>>

\* signTransactionWithSigner: the catch block, whatever was thrown.
SignFailedMutant(thrown) == thrown

SignFailed(thrown) == "failed_to_sign_transaction"

\* The bytes transaction.build may resolve with, and the bytes a wallet may
\* have built and signed for the same transaction.
TransactionBuilds == {<<1, 2, 3, 4>>, <<1, 2, 3, 4, 5>>}

\* signTransactionWithSigner: transaction.build({client: undefined})
SignBuild ==
  /\ sg.pc = "signBuild"
  /\ \/ \E b \in TransactionBuilds :
          sg' = [sg EXCEPT !.pc = "sign", !.buildCalls = @ + 1, !.built = b]
     \/ sg' = [sg EXCEPT !.pc = "done", !.buildCalls = @ + 1,
                         !.error = SignFailed("build error")]
  /\ UNCHANGED <<req, vs, fac, ph, hc, call>>

\* signTransactionWithSigner: which branch signs, from the signer's shape.
\* "transaction": signer.signTransaction(transaction); "bytes": the keypair
\* branch signer.signTransaction(transactionBytes); "none": throws.
SigningBranch(s) ==
  IF s.signTransaction = "function"
    THEN "transaction"
    ELSE IF (s.signMessage \/ s.signPersonalMessage) /\ s.signTransaction # "absent"
      THEN "bytes"
      ELSE "none"

\* return {signature: signatureResult.signature,
\*         transactionBytes: toBase64(transactionBytes)}
Signed(st, signatureResult) ==
  [st EXCEPT !.pc = "done", !.result = "signed",
             !.signerBytes = signatureResult.bytes,
             !.transactionBytes = toBase64(st.built)]

\* The signing call itself; every throw inside the try block becomes
\* failed_to_sign_transaction.  In the keypair branch the member is reached
\* only when it is not callable, so the call throws before any signer code
\* runs.
Sign ==
  /\ sg.pc = "sign"
  /\ LET b == SigningBranch(sg.signer) IN
       IF b = "transaction"
         THEN IF sg.signer.signs
                THEN \E signed \in TransactionBuilds :
                       sg' = Signed([sg EXCEPT !.signCalls = @ + 1, !.signArg = b],
                                    [signature |-> <<65>>,
                                     bytes |-> toBase64(signed)])
                ELSE sg' = [sg EXCEPT !.pc = "done", !.signCalls = @ + 1,
                                      !.signArg = b,
                                      !.error = SignFailed("signer error")]
         ELSE sg' = [sg EXCEPT !.pc = "done",
                               !.error = SignFailed(IF b = "bytes"
                                            THEN "TypeError"
                                            ELSE "Signer does not support signing")]
  /\ UNCHANGED <<req, vs, fac, ph, hc, call>>

InitSign ==
  /\ req = [r \in Requests |-> IdleRequest]
  /\ sg = ReadySign
  /\ vs = IdleSig
  /\ fac = IdleFac
  /\ ph = [pc |-> "off"]
  /\ hc = [pc |-> "off"]
  /\ call = [pc |-> "off"]

NextSign ==
  \/ SignInvoke
  \/ SimulateBuild
  \/ DryRun
  \/ SignBuild
  \/ Sign

SpecSign == InitSign /\ [][NextSign]_vars

(***************************************************************************)
(* Claims about the simulate and sign helpers                              *)
(***************************************************************************)

\* C5: signAndSimulateTransaction simulates before it signs: the signer is
\* never invoked before a dry-run has been made, and if simulateTransaction
\* fails, the call rejects with transaction_simulation_failed and the signer
\* is never invoked, also for a signer that would have signed.
C5_SimulateBeforeSign ==
  sg.fn = "signAndSimulateTransaction" =>
    /\ (sg.signCalls > 0 \/ sg.pc \in {"signBuild", "sign"}) =>
         (sg.dryRunCalls = 1 /\ sg.simulateError = "none")
    /\ (sg.simulateError # "none") =>
         /\ sg.pc = "done"
         /\ sg.error = "transaction_simulation_failed"
         /\ sg.result = "none"
         /\ sg.signCalls = 0

\* The dry-run rejected for a signer that has a callable signTransaction and
\* would have signed; the call has rejected.
C5_Witness ==
  /\ sg.fn = "signAndSimulateTransaction"
  /\ sg.signer.signTransaction = "function" /\ sg.signer.signs
  /\ sg.dryRunCalls = 1
  /\ sg.simulateError = "transaction_simulation_failed"
  /\ sg.pc = "done"

\* C6: on the simulate-then-sign path, when the dry-run returns a result
\* whose execution status is a failure, the signer is not asked to sign.
C6_NoSignatureForRevertingTransaction ==
  (sg.fn = "signAndSimulateTransaction" /\ sg.simulateResult = "failure") =>
    sg.signCalls = 0

\* The signer has a member through which signTransactionWithSigner can sign.
SignerUsable == sg.signer.signTransaction = "function"

\* C21: signTransactionWithSigner fails with failed_to_sign_transaction and
\* with no other error in every failure case (the signer has no usable signing
\* capability, its signing call throws, building the bytes throws), and
\* returns no result in those cases.
C21_SignFailureIsTyped ==
  (sg.fn = "signTransactionWithSigner" /\ sg.pc = "done") =>
    /\ sg.error \in {"none", "failed_to_sign_transaction"}
    /\ (~SignerUsable \/ ~sg.signer.signs \/ sg.signCalls = 0) =>
         (sg.error = "failed_to_sign_transaction" /\ sg.result = "none")
    /\ (sg.error = "none") => sg.result = "signed"

\* A signer with signMessage and a non-callable signTransaction member has
\* made signTransactionWithSigner fail after the bytes were built.
C21_Witness ==
  /\ sg.fn = "signTransactionWithSigner" /\ sg.pc = "done"
  /\ sg.signer.signTransaction = "value" /\ sg.signer.signMessage
  /\ sg.buildCalls = 1
  /\ sg.error = "failed_to_sign_transaction"

\* C22: simulateTransaction builds the transaction and then makes exactly one
\* dry-run; an error of the build or of the dry-run makes it fail with
\* transaction_simulation_failed; otherwise it returns the dry-run result
\* unchanged.
C22_SimulateOnce ==
  (sg.fn = "simulateTransaction" /\ sg.pc = "done") =>
    /\ sg.buildCalls = 1
    /\ sg.dryRunCalls <= 1
    /\ sg.signCalls = 0
    /\ sg.error \in {"none", "transaction_simulation_failed"}
    /\ (sg.error = "none") =>
         /\ sg.dryRunCalls = 1
         /\ sg.result = "simulateResult"
         /\ sg.simulateResult \in {"success", "failure"}
    /\ (sg.error # "none") =>
         /\ sg.result = "none"
         /\ sg.simulateResult = "none"

\* simulateTransaction has returned a dry-run result whose status is failure.
C22_Witness ==
  /\ sg.fn = "simulateTransaction" /\ sg.pc = "done"
  /\ sg.dryRunCalls = 1
  /\ sg.simulateResult = "failure"
  /\ sg.result = "simulateResult"


(***************************************************************************)
(* Part 3.  shared/sui/transaction.ts: verifyTransactionSignature          *)
(*                                                                         *)
(* Bytes are numbers 0..255.  A base64 string is the sequence of its       *)
(* characters, each given by its index in the base64 alphabet (0..63),     *)
(* with PadChar for "=" and BadChar for a character outside the alphabet.  *)
(***************************************************************************)

\* signatureBytes.slice(from, to) of a Uint8Array (0-based, end exclusive)
Slice(b, from, to) ==
  LET hi == IF to > Len(b) THEN Len(b) ELSE to
  IN  IF from >= hi THEN << >> ELSE SubSeq(b, from + 1, hi)

\* Number of key pairs in the model.
NumKeys == 2

Keys == 1..NumKeys

\* The 32-byte Ed25519 public key of key pair k.
PublicKeyBytes(k) == [i \in 1..32 |-> (37 * k + i) % 256]

\* Ed25519PublicKey.toSuiAddress(): a hash of the public key, modelled as an
\* injective function of its bytes.
toSuiAddress(pk) == [i \in 1..Len(pk) |-> (pk[i] + 101) % 256]

\* The one 64-byte signature that verifies for message msg under the public
\* key pk (Ed25519 is deterministic).
Ed25519Signature(pk, msg) ==
  [i \in 1..64 |->
     ( pk[((i - 1) % Len(pk)) + 1]
       + (IF Len(msg) = 0 THEN 0 ELSE msg[((i - 1) % Len(msg)) + 1])
       + i ) % 256]

\* Ed25519PublicKey.verify(message, signature)
Ed25519Verify(pk, msg, sig) ==
  Len(pk) = 32 /\ Len(sig) = 64 /\ sig = Ed25519Signature(pk, msg)

\* if (signatureBytes.length < 97) return false
SignatureTooShortMutant(signatureBytes) == Len(signatureBytes) # 97

SignatureTooShort(signatureBytes) == Len(signatureBytes) < 97

\* if (schemeFlag !== 0x00) return false
SchemeSupportedMutant(schemeFlag) == schemeFlag \in {0, 1}

SchemeSupported(schemeFlag) == schemeFlag = 0

\* if (signerAddress !== expectedSigner) return false
SignerMatches(signerAddress, expectedSigner) == signerAddress = expectedSigner

\* The body of the try block.  libraryThrows: the key constructor or the
\* verify call of the library throws instead of answering false, which it
\* may do for bytes that are no valid key or signature.
VerifyBody(payload, expectedSigner, libraryThrows) ==
  IF ~IsBase64(payload.txData) \/ ~IsBase64(payload.signature)
    THEN [threw |-> TRUE, value |-> FALSE]
    ELSE
      LET transactionBytes == fromBase64(payload.txData)
          signatureBytes == fromBase64(payload.signature)
      IN  IF SignatureTooShort(signatureBytes)
            THEN [threw |-> FALSE, value |-> FALSE]
            ELSE
              LET schemeFlag == signatureBytes[1]
                  signature == Slice(signatureBytes, 1, 65)
                  publicKeyBytes == Slice(signatureBytes, 65, 97)
              IN  IF ~SchemeSupported(schemeFlag)
                    THEN [threw |-> FALSE, value |-> FALSE]
                    ELSE IF Len(publicKeyBytes) # 32
                      THEN [threw |-> TRUE, value |-> FALSE]
                    ELSE IF ~SignerMatches(toSuiAddress(publicKeyBytes), expectedSigner)
                      THEN [threw |-> FALSE, value |-> FALSE]
                    ELSE IF Ed25519Verify(publicKeyBytes, transactionBytes, signature)
                      THEN [threw |-> FALSE, value |-> TRUE]
                    ELSE [threw |-> libraryThrows, value |-> FALSE]

\* try { ... } catch (error) { return false }
verifyTransactionSignatureMutant(payload, expectedSigner, libraryThrows) ==
  VerifyBody(payload, expectedSigner, libraryThrows)

verifyTransactionSignature(payload, expectedSigner, libraryThrows) ==
  LET r == VerifyBody(payload, expectedSigner, libraryThrows)
  IN  IF r.threw THEN [threw |-> FALSE, value |-> FALSE] ELSE r


\* Recipient addresses and amounts a transfer transaction can carry.
Recipients == {170, 187}

Amounts == {999, 1000}

\* The serialized transfer transaction: sender, recipient, amount (two
\* bytes, little-endian).
TransactionBytes(sender, payTo, amount) ==
  <<sender, payTo, amount % 256, amount \div 256>>

Transactions ==
  {TransactionBytes(k, p, a) : k \in Keys, p \in Recipients, a \in Amounts}

\* Byte lengths of the decoded signature field that are tried.
SignatureLengths == {0, 50, 96, 97, 100}

SchemeFlags == {0, 1}

\* A serialized signature: scheme flag, the signature that key signedBy makes
\* over msg, the public key of key k, then trailing bytes; cut or extended to
\* len bytes.
SerializedSignature(flag, k, signedBy, msg, len) ==
  LET full == <<flag>> \o Ed25519Signature(PublicKeyBytes(signedBy), msg)
                       \o PublicKeyBytes(k)
  IN  [i \in 1..len |-> IF i <= Len(full) THEN full[i] ELSE (7 * i) % 256]

\* Strings that are not base64: one with a character outside the alphabet
\* ("invalid_base64!!!") and one of an impossible length.
MalformedStrings == { <<8, 53, 47, BadChar, BadChar, BadChar>>, <<8, 53, 47, 0, 1>> }

\* Values of expectedSigner: the address of a key pair, or another address.
ExpectedSigners ==
  {toSuiAddress(PublicKeyBytes(k)) : k \in Keys} \cup {<<1, 2, 3>>}

NoSignatureGiven ==
  [kind |-> "none", flag |-> 0, key |-> 0, signedBy |-> 0, msg |-> << >>, len |-> 0]

ReadySig ==
  [ pc             |-> "idle",
    payload        |-> [signature |-> << >>, txData |-> << >>],
    given          |-> NoSignatureGiven,
    txGiven        |-> << >>,
    expectedSigner |-> << >>,
    payTo          |-> 0,
    amount         |-> 0,
    result         |-> [threw |-> FALSE, value |-> FALSE] ]

\* A client hands over a payload {signature, txData}: both fields are the
\* base64 of bytes.
BuildPayload ==
  /\ vs.pc = "idle"
  /\ \E flag \in SchemeFlags, k \in Keys, signedBy \in Keys, len \in SignatureLengths,
        tx \in Transactions, sameMessage \in BOOLEAN :
       LET msg == IF sameMessage THEN tx
                  ELSE TransactionBytes(tx[1], tx[2], 1999 - (tx[3] + 256 * tx[4]))
       IN  vs' = [vs EXCEPT
                   !.pc = "built",
                   !.payload = [signature |-> toBase64(SerializedSignature(flag, k, signedBy, msg, len)),
                                txData |-> toBase64(tx)],
                   !.given = [kind |-> "bytes", flag |-> flag, key |-> k,
                              signedBy |-> signedBy, msg |-> msg, len |-> len],
                   !.txGiven = tx]
  /\ UNCHANGED <<req, sg, fac, ph, hc, call>>

\* A payload with a signature or txData string that is not base64.
BuildMalformedPayload ==
  /\ vs.pc = "idle"
  /\ \E k \in Keys, tx \in Transactions, bad \in MalformedStrings,
        which \in {"signature", "txData"} :
       LET good == toBase64(SerializedSignature(0, k, k, tx, 97))
       IN  vs' = [vs EXCEPT
                   !.pc = "built",
                   !.payload = IF which = "signature"
                                 THEN [signature |-> bad, txData |-> toBase64(tx)]
                                 ELSE [signature |-> good, txData |-> bad],
                   !.given = [kind |-> "malformed", flag |-> 0, key |-> k,
                              signedBy |-> k, msg |-> tx, len |-> 97],
                   !.txGiven = tx]
  /\ UNCHANGED <<req, sg, fac, ph, hc, call>>

\* The payload is checked for the requirements {payTo, amount}: the check
\* the package offers is verifyTransactionSignature(payload, expectedSigner),
\* which is not given the requirements.
VerifySignature ==
  /\ vs.pc = "built"
  /\ \E e \in ExpectedSigners, payTo \in Recipients, libraryThrows \in BOOLEAN :
       vs' = [vs EXCEPT
               !.pc = "done",
               !.expectedSigner = e,
               !.payTo = payTo,
               !.amount = 1000,
               !.result = verifyTransactionSignature(vs.payload, e, libraryThrows)]
  /\ UNCHANGED <<req, sg, fac, ph, hc, call>>

InitSig ==
  /\ req = [r \in Requests |-> IdleRequest]
  /\ sg = IdleSign
  /\ vs = ReadySig
  /\ fac = IdleFac
  /\ ph = [pc |-> "off"]
  /\ hc = [pc |-> "off"]
  /\ call = [pc |-> "off"]

NextSig ==
  \/ BuildPayload
  \/ BuildMalformedPayload
  \/ VerifySignature

SpecSig == InitSig /\ [][NextSig]_vars

(***************************************************************************)
(* Claims about verifyTransactionSignature                                 *)
(***************************************************************************)

\* The call has returned.
SigDone == vs.pc = "done"

\* The payload is one of those the claim lists as rejected: a field that is
\* empty or not base64, a signature shorter than 97 bytes, a scheme flag
\* other than 0x00, a derived address different from the expected signer.
SigRejectedCase ==
  \/ vs.given.kind = "malformed"
  \/ vs.given.len < 97
  \/ vs.given.flag # 0
  \/ toSuiAddress(PublicKeyBytes(vs.given.key)) # vs.expectedSigner

\* C7: verifyTransactionSignature never throws, and it returns false for an
\* empty or non-base64 field, a signature shorter than 97 bytes, a scheme
\* flag other than 0x00 and a derived address that differs from the expected
\* signer.
C7_VerifyIsTotal ==
  SigDone =>
    /\ vs.result.threw = FALSE
    /\ vs.result.value \in BOOLEAN
    /\ SigRejectedCase => vs.result.value = FALSE

\* A payload whose signature field is not base64 has been answered false.
C7_Witness ==
  /\ SigDone
  /\ vs.given.kind = "malformed"
  /\ ~IsBase64(vs.payload.signature)
  /\ vs.result = [threw |-> FALSE, value |-> FALSE]

\* C8: verifyTransactionSignature returns true only if the decoded
\* signature has at least 97 bytes, its first byte is 0x00, the address
\* derived from the public key in bytes 65..96 equals expectedSigner, and
\* bytes 1..64 are the signature of that key over the decoded txData; in
\* every other case it returns false.
C8_TrueOnlyIfAllChecksPass ==
  SigDone =>
    /\ vs.result.value \in BOOLEAN
    /\ vs.result.value = TRUE =>
        /\ vs.given.kind = "bytes"
        /\ vs.given.len >= 97
        /\ vs.given.flag = 0
        /\ toSuiAddress(PublicKeyBytes(vs.given.key)) = vs.expectedSigner
        /\ vs.given.signedBy = vs.given.key
        /\ vs.given.msg = vs.txGiven

\* A 100-byte signature by the expected signer over the payload's txData has
\* been accepted.
C8_Witness ==
  /\ SigDone
  /\ vs.given.kind = "bytes" /\ vs.given.len = 100
  /\ vs.result.value = TRUE

\* C9: a payload whose transaction pays another recipient than the
\* requirements' payTo, or less than the required amount, fails verification
\* even when its signature is valid.
C9_RequirementsBinding ==
  ( /\ SigDone
    /\ \E k \in Keys, p \in Recipients, a \in Amounts :
         /\ vs.txGiven = TransactionBytes(k, p, a)
         /\ (p # vs.payTo \/ a < vs.amount) ) => vs.result.value = FALSE


(***************************************************************************)
(* Part 4.  site/app/facilitator: POST /verify and POST /settle            *)
(***************************************************************************)

ALLOWED_NETWORKS ==
  {"base-sepolia", "solana-devnet", "eip155:84532",
   "solana:EtWTRABZaYq6iMfeYKouRu166VU2xqa1"}

\* Network families of x402/types.
SupportedEVMNetworks == {"base-sepolia", "base"}

SupportedSVMNetworks == {"solana-devnet", "solana"}

\* Values of body.paymentRequirements.network that are tried; "undefined"
\* stands for a requirements object without the field.
Networks ==
  ALLOWED_NETWORKS \cup {"base", "solana", "sui", "sui-testnet", "undefined"}

\* Shapes of body.paymentPayload: absent, an object without a payload field,
\* one whose payload is not an object, an EVM payload (with authorization),
\* a payload without authorization (SVM, Sui).
PayloadShapes ==
  {"absent", "noPayload", "payloadNotObject", "authorization", "transaction"}

FacilitatorRequests ==
  [ route              : {"verify", "settle"},
    jsonOk             : BOOLEAN,
    hasRequirements    : BOOLEAN,
    network            : Networks,
    payloadShape       : PayloadShapes,
    payloadValid       : BOOLEAN,
    requirementsValid  : BOOLEAN,
    evmKeySet          : BOOLEAN,
    svmKeySet          : BOOLEAN,
    clientCreated      : BOOLEAN,
    outcome            : {"ok", "refused", "threw"} ]

\* Inputs that can occur: a body without requirements has no network, and
\* only a well-shaped payload can pass the schema.
PossibleRequest(b) ==
  /\ (~b.jsonOk) => (~b.hasRequirements /\ b.payloadShape = "absent")
  /\ (~b.hasRequirements) => (b.network = "undefined" /\ ~b.requirementsValid)
  /\ (b.network = "undefined") => ~b.requirementsValid
  /\ b.payloadValid => b.payloadShape \in {"authorization", "transaction"}

NoFacResponse ==
  [status |-> 0, ok |-> FALSE, reason |-> "none", error |-> "none",
   stack |-> "none", payer |-> "none", transaction |-> "none",
   network |-> "none"]

ReadyFac ==
  [ pc       |-> "idle",
    body     |-> [route |-> "none"],
    log      |-> << >>,
    logged   |-> {},
    threw    |-> FALSE,
    response |-> NoFacResponse ]

\* if (!ALLOWED_NETWORKS.includes(network))
NetworkAllowedMutant(network) ==
  network \in ALLOWED_NETWORKS \cup SupportedEVMNetworks \cup SupportedSVMNetworks

NetworkAllowedWithSui(network) ==
  network \in ALLOWED_NETWORKS \cup {"sui", "sui-testnet"}

NetworkAllowed(network) == network \in ALLOWED_NETWORKS

\* The exception a catch block of a route receives.
CaughtError == [message |-> "message", stack |-> "stack"]

\* const errorMessage = error.message; ... error: errorMessage
ErrorInBodyMutant(response, error) ==
  [response EXCEPT !.error = error.message, !.stack = error.stack]

ErrorInBody(response, error) ==
  [response EXCEPT !.error = error.message]

\* console.error of a schema catch block, and of the verify()/settle() one.
LoggedBySchemaCatch(error) == {error.message}

LoggedByCallCatch(error) == {error.message, error.stack}

\* payer of the invalid_payload rejection of /verify, read from the raw
\* body; evaluating it throws when the payload field is not an object.
PayerOfMutant(shape) ==
  IF shape \in {"authorization", "transaction"} THEN "from" ELSE ""

PayerOf(shape) ==
  IF shape = "authorization" THEN "from" ELSE ""

PayerThrows(shape) == shape = "payloadNotObject"

Thrown(log, logged) ==
  [log |-> log, logged |-> logged, threw |-> TRUE, response |-> NoFacResponse]

Answer(log, logged, response) ==
  [log |-> log, logged |-> logged, threw |-> FALSE, response |-> response]

\* The result of verify(): a VerifyResponse.
VerifyResult(outcome) ==
  [NoFacResponse EXCEPT !.ok = (outcome = "ok"),
     !.reason = IF outcome = "ok" THEN "none" ELSE "verify",
     !.payer = "payer"]

\* The result of settle(): a SettleResponse.
SettleResult(outcome) ==
  [NoFacResponse EXCEPT !.ok = (outcome = "ok"),
     !.reason = IF outcome = "ok" THEN "none" ELSE "settle",
     !.transaction = IF outcome = "ok" THEN "digest" ELSE "",
     !.network = "payload.network"]

\* return Response.json(valid) / return Response.json(response)
ReturnResult(result) == [result EXCEPT !.status = 200]

\* The calls of settle() that one run of the try block makes.
SettleAttemptsMutant(outcome) ==
  IF outcome = "threw" THEN <<"settle", "settle">> ELSE <<"settle">>

SettleAttempts(outcome) == <<"settle">>

\* The catch block around settle().
SettleCaught(error) ==
  ErrorInBody([NoFacResponse EXCEPT !.status = 500,
                 !.reason = "unexpected_settle_error",
                 !.transaction = "", !.network = "payload.network"], error)

\* The response of /settle when no private key is resolved.
NoPrivateKey(network) ==
  [NoFacResponse EXCEPT !.status = 400, !.reason = "invalid_network"]

\* POST of facilitator/verify/route.ts
PostVerify(b) ==
  IF ~b.jsonOk \/ ~b.hasRequirements THEN Thrown(<< >>, {})
  ELSE IF ~NetworkAllowed(b.network)
    THEN Answer(<< >>, {"network"},
           [NoFacResponse EXCEPT !.status = 400,
              !.reason = "invalid_network", !.error = "unsupported"])
  ELSE IF b.network \notin (SupportedEVMNetworks \cup SupportedSVMNetworks)
    THEN Answer(<< >>, {}, [NoFacResponse EXCEPT !.status = 400,
                              !.reason = "invalid_network"])
  ELSE
    LET create == IF b.network \in SupportedEVMNetworks
                    THEN "createConnectedClient" ELSE "createSigner"
    IN
    IF ~b.clientCreated THEN Thrown(<<create>>, {})
    ELSE IF ~b.payloadValid
      THEN IF PayerThrows(b.payloadShape)
             THEN Thrown(<<create, "parsePayload">>,
                         LoggedBySchemaCatch(CaughtError))
             ELSE Answer(<<create, "parsePayload">>,
                    LoggedBySchemaCatch(CaughtError),
                    ErrorInBody([NoFacResponse EXCEPT !.status = 400,
                                   !.reason = "invalid_payload",
                                   !.payer = PayerOf(b.payloadShape)],
                                CaughtError))
    ELSE IF ~b.requirementsValid
      THEN Answer(<<create, "parsePayload", "parseRequirements">>,
             LoggedBySchemaCatch(CaughtError),
             ErrorInBody([NoFacResponse EXCEPT !.status = 400,
                            !.reason = "invalid_payment_requirements",
                            !.payer = PayerOf(b.payloadShape)],
                         CaughtError))
    ELSE
      LET log == <<create, "parsePayload", "parseRequirements", "verify">> IN
      IF b.outcome = "threw"
        THEN Answer(log, LoggedByCallCatch(CaughtError),
               ErrorInBody([NoFacResponse EXCEPT !.status = 500,
                              !.reason = "unexpected_verify_error",
                              !.payer = PayerOf(b.payloadShape)],
                           CaughtError))
        ELSE Answer(log, {}, ReturnResult(VerifyResult(b.outcome)))

\* POST of facilitator/settle/route.ts
PostSettle(b) ==
  IF ~b.jsonOk \/ ~b.hasRequirements THEN Thrown(<< >>, {})
  ELSE IF ~NetworkAllowed(b.network)
    THEN Answer(<< >>, {"network"},
           [NoFacResponse EXCEPT !.status = 400,
              !.reason = "invalid_network", !.error = "unsupported",
              !.transaction = "", !.network = b.network])
  ELSE
    LET privateKeySet ==
          IF b.network \in SupportedEVMNetworks THEN b.evmKeySet
          ELSE IF b.network \in SupportedSVMNetworks THEN b.svmKeySet
          ELSE FALSE
    IN
    IF ~privateKeySet
      THEN Answer(<< >>, {}, NoPrivateKey(b.network))
    ELSE IF ~b.clientCreated THEN Thrown(<<"createSigner">>, {})
    ELSE IF ~b.payloadValid
      THEN Answer(<<"createSigner", "parsePayload">>,
             LoggedBySchemaCatch(CaughtError),
             ErrorInBody([NoFacResponse EXCEPT !.status = 400,
                            !.reason = "invalid_payload",
                            !.transaction = "",
                            !.network = IF b.payloadShape = "absent"
                                          THEN "" ELSE "payload.network"],
                         CaughtError))
    ELSE IF ~b.requirementsValid
      THEN Answer(<<"createSigner", "parsePayload", "parseRequirements">>,
             LoggedBySchemaCatch(CaughtError),
             ErrorInBody([NoFacResponse EXCEPT !.status = 400,
                            !.reason = "invalid_payment_requirements",
                            !.transaction = "",
                            !.network = "payload.network"],
                         CaughtError))
    ELSE
      LET log == <<"createSigner", "parsePayload", "parseRequirements">>
                   \o SettleAttempts(b.outcome)
      IN
      IF b.outcome = "threw"
        THEN Answer(log, LoggedByCallCatch(CaughtError),
                    SettleCaught(CaughtError))
        ELSE Answer(log, {}, ReturnResult(SettleResult(b.outcome)))

\* A request is handled by POST /verify.
HandleVerify ==
  /\ fac.pc = "idle"
  /\ \E b \in FacilitatorRequests :
       /\ b.route = "verify" /\ PossibleRequest(b)
       /\ LET r == PostVerify(b) IN
            fac' = [pc |-> "done", body |-> b, log |-> r.log,
                    logged |-> r.logged, threw |-> r.threw,
                    response |-> r.response]
  /\ UNCHANGED <<req, sg, vs, ph, hc, call>>

\* A request is handled by POST /settle.
HandleSettle ==
  /\ fac.pc = "idle"
  /\ \E b \in FacilitatorRequests :
       /\ b.route = "settle" /\ PossibleRequest(b)
       /\ LET r == PostSettle(b) IN
            fac' = [pc |-> "done", body |-> b, log |-> r.log,
                    logged |-> r.logged, threw |-> r.threw,
                    response |-> r.response]
  /\ UNCHANGED <<req, sg, vs, ph, hc, call>>

InitFac ==
  /\ req = [r \in Requests |-> IdleRequest]
  /\ sg = IdleSign
  /\ vs = IdleSig
  /\ fac = ReadyFac
  /\ ph = [pc |-> "off"]
  /\ hc = [pc |-> "off"]
  /\ call = [pc |-> "off"]

NextFac ==
  \/ HandleVerify
  \/ HandleSettle

SpecFac == InitFac /\ [][NextFac]_vars

(***************************************************************************)
(* Claims about the facilitator routes                                     *)
(***************************************************************************)

\* C10: in POST /verify and POST /settle a request whose
\* paymentRequirements.network is not in ALLOWED_NETWORKS is answered with
\* HTTP 400 and reason invalid_network, before the payload is schema-parsed,
\* before any chain client or signer is created, and without verify() or
\* settle() being called.
C10_NetworkRejectedFirst ==
  ( /\ fac.pc = "done"
    /\ fac.body.hasRequirements
    /\ fac.body.network \notin
         {"base-sepolia", "solana-devnet", "eip155:84532",
          "solana:EtWTRABZaYq6iMfeYKouRu166VU2xqa1"} ) =>
    /\ ~fac.threw
    /\ fac.response.status = 400
    /\ fac.response.reason = "invalid_network"
    /\ fac.response.ok = FALSE
    /\ fac.log = << >>

\* POST /settle has rejected a request for a network of a supported family
\* that is not allowed, although its payload and requirements are valid and
\* the key is configured.
C10_Witness ==
  /\ fac.pc = "done"
  /\ fac.body.route = "settle"
  /\ fac.body.network = "base"
  /\ fac.body.payloadValid /\ fac.body.requirementsValid
  /\ fac.body.evmKeySet /\ fac.body.clientCreated
  /\ fac.response.status = 400
  /\ fac.response.reason = "invalid_network"

\* The facilitator has handled a request whose body could be read and has a
\* paymentRequirements object.
FacDone ==
  /\ fac.pc = "done"
  /\ fac.body.jsonOk
  /\ fac.body.hasRequirements

\* The network of the handled request is on the allow-list.
FacNetworkPassed ==
  fac.body.network \in
    {"base-sepolia", "solana-devnet", "eip155:84532",
     "solana:EtWTRABZaYq6iMfeYKouRu166VU2xqa1"}

\* The client (for /verify) or the key and signer (for /settle) of the handled
\* request were resolved.
FacClientPassed ==
  /\ fac.body.clientCreated
  /\ IF fac.body.route = "verify"
       THEN fac.body.network \in SupportedEVMNetworks \cup SupportedSVMNetworks
       ELSE \/ fac.body.network \in SupportedEVMNetworks /\ fac.body.evmKeySet
            \/ fac.body.network \in SupportedSVMNetworks /\ fac.body.svmKeySet

\* The steps of a handled request after the allow-list, in the order they
\* were taken.
FacStepKinds ==
  [i \in 1..Len(fac.log) |->
     IF fac.log[i] \in {"createConnectedClient", "createSigner"}
       THEN "resolve" ELSE fac.log[i]]

\* C11: in POST /verify and POST /settle the checks run in the order
\* allow-list, client/key resolution, payload schema, requirements schema;
\* verify() or settle() is called only when all four passed; and the first
\* failing check decides the response: a payload schema failure gives HTTP 400
\* invalid_payload, a requirements schema failure gives HTTP 400
\* invalid_payment_requirements.
C11_ChecksInFixedOrder ==
  FacDone =>
    /\ \E n \in 0..4 :
         FacStepKinds =
           SubSeq(<<"resolve", "parsePayload", "parseRequirements",
                    fac.body.route>>, 1, n)
    /\ (\E i \in 1..Len(fac.log) : fac.log[i] \in {"verify", "settle"}) =>
         /\ FacNetworkPassed /\ FacClientPassed
         /\ fac.body.payloadValid /\ fac.body.requirementsValid
    /\ (FacNetworkPassed /\ FacClientPassed /\ ~fac.body.payloadValid) =>
         /\ ~fac.threw
         /\ fac.response.status = 400
         /\ fac.response.reason = "invalid_payload"
    /\ ( /\ FacNetworkPassed /\ FacClientPassed
         /\ fac.body.payloadValid /\ ~fac.body.requirementsValid ) =>
         /\ ~fac.threw
         /\ fac.response.status = 400
         /\ fac.response.reason = "invalid_payment_requirements"

\* C12: POST /verify never throws outward: for every body, one without
\* paymentRequirements or with a non-object payload field included, it
\* returns a VerifyResponse, and an error inside verify() is answered with
\* unexpected_verify_error.
C12_VerifyNeverThrows ==
  (fac.pc = "done" /\ fac.body.route = "verify") =>
    /\ ~fac.threw
    /\ fac.response.status \in {200, 400, 500}
    /\ (FacStepKinds # << >> /\ FacStepKinds[Len(fac.log)] = "verify"
          /\ fac.body.outcome = "threw") =>
         fac.response.reason = "unexpected_verify_error"

\* The number of calls of settle() in a handled request.
SettleCallCount ==
  Cardinality({i \in 1..Len(fac.log) : fac.log[i] = "settle"})

\* C13: POST /settle calls settle() at most once and never retries; when
\* settle() throws the response is HTTP 500 with success false, errorReason
\* unexpected_settle_error, transaction "" and the payload's network; when it
\* returns, its result is the response body, unchanged.
C13_OneSettlementAttempt ==
  (fac.pc = "done" /\ fac.body.route = "settle") =>
    /\ SettleCallCount <= 1
    /\ (SettleCallCount > 0 /\ fac.body.outcome = "threw") =>
         /\ ~fac.threw
         /\ fac.response.status = 500
         /\ fac.response.ok = FALSE
         /\ fac.response.reason = "unexpected_settle_error"
         /\ fac.response.transaction = ""
         /\ fac.response.network = "payload.network"
    /\ (SettleCallCount > 0 /\ fac.body.outcome # "threw") =>
         /\ ~fac.threw
         /\ fac.response.status = 200
         /\ [fac.response EXCEPT !.status = 0] = SettleResult(fac.body.outcome)

\* settle() has thrown in POST /settle and the request was answered with 500.
C13_Witness ==
  /\ fac.pc = "done"
  /\ fac.body.route = "settle"
  /\ fac.body.outcome = "threw"
  /\ SettleCallCount = 1
  /\ fac.response.status = 500

\* C14: every failure response of POST /settle has success false, an
\* errorReason, transaction "" and a network field.
C14_SettleFailureShape ==
  ( /\ fac.pc = "done"
    /\ fac.body.route = "settle"
    /\ ~fac.threw
    /\ ~fac.response.ok ) =>
    /\ fac.response.reason # "none"
    /\ fac.response.transaction = ""
    /\ fac.response.network # "none"

\* C15 as stated: no body returned by POST /verify or POST /settle contains
\* the message or the stack of an exception raised in schema parsing, verify()
\* or settle().
C15_NoExceptionContentInBody ==
  fac.pc = "done" =>
    /\ fac.response.error # CaughtError.message
    /\ fac.response.stack # CaughtError.stack

\* A handled request ended in one of the catch blocks of its route.
FacCaught ==
  /\ FacDone /\ FacNetworkPassed /\ FacClientPassed /\ ~fac.threw
  /\ \/ ~fac.body.payloadValid
     \/ ~fac.body.requirementsValid
     \/ fac.body.outcome = "threw"

\* C15, amended: no body returned by POST /verify or POST /settle contains
\* the stack of an exception, which is logged server-side only, and only for
\* an exception of verify() or settle(); the message of the exception is in
\* the error field of the body of exactly the responses built by a catch
\* block, and is logged as well.
C15_OnlyMessageCrosses ==
  fac.pc = "done" =>
    /\ fac.response.stack = "none"
    /\ (~fac.threw) =>
         /\ (fac.response.error = CaughtError.message) <=> FacCaught
         /\ FacCaught => CaughtError.message \in fac.logged
         /\ (CaughtError.stack \in fac.logged) <=>
              ( /\ FacCaught /\ fac.body.payloadValid
                /\ fac.body.requirementsValid )

\* verify() has thrown in POST /verify: the 500 response carries the message,
\* and the stack was logged.
C15_Witness ==
  /\ fac.pc = "done"
  /\ fac.body.route = "verify"
  /\ fac.response.status = 500
  /\ fac.response.error = CaughtError.message
  /\ CaughtError.stack \in fac.logged

(***************************************************************************)
(* Part 5.  The payment header: envelope, JSON text, base64                *)
(***************************************************************************)

\* Strings are sequences of ASCII character codes: the member names of the
\* envelope, the scheme and the networks.
Text(name) ==
  CASE name = "x402Version" -> <<120, 52, 48, 50, 86, 101, 114, 115, 105, 111, 110>>
    [] name = "scheme" -> <<115, 99, 104, 101, 109, 101>>
    [] name = "network" -> <<110, 101, 116, 119, 111, 114, 107>>
    [] name = "payload" -> <<112, 97, 121, 108, 111, 97, 100>>
    [] name = "signature" -> <<115, 105, 103, 110, 97, 116, 117, 114, 101>>
    [] name = "txData" -> <<116, 120, 68, 97, 116, 97>>
    [] name = "exact" -> <<101, 120, 97, 99, 116>>
    [] name = "sui" -> <<115, 117, 105>>
    [] name = "sui-testnet" -> <<115, 117, 105, 45, 116, 101, 115, 116, 110, 101, 116>>
    [] name = "base-sepolia" -> <<98, 97, 115, 101, 45, 115, 101, 112, 111, 108, 105, 97>>

HeaderNetworks == {"sui", "sui-testnet", "base-sepolia"}

\* The characters JSON.stringify escapes with a backslash, of those tried.
Quote == 34

Backslash == 92

RECURSIVE JsonEscape(_)
JsonEscape(str) ==
  IF str = << >> THEN << >>
  ELSE (IF Head(str) \in {Quote, Backslash}
          THEN <<Backslash, Head(str)>> ELSE <<Head(str)>>)
       \o JsonEscape(Tail(str))

JsonString(str) == <<Quote>> \o JsonEscape(str) \o <<Quote>>

RECURSIVE JsonNumber(_)
JsonNumber(n) ==
  IF n < 10 THEN <<48 + n>>
  ELSE JsonNumber(n \div 10) \o <<48 + (n % 10)>>

JsonMember(key, valueText) == JsonString(key) \o <<58>> \o valueText

\* JSON.stringify of the envelope {x402Version, scheme, network, payload}
JsonStringify(e) ==
  <<123>> \o JsonMember(Text("x402Version"), JsonNumber(e.x402Version)) \o <<44>>
          \o JsonMember(Text("scheme"), JsonString(e.scheme)) \o <<44>>
          \o JsonMember(Text("network"), JsonString(e.network)) \o <<44>>
          \o JsonMember(Text("payload"),
               <<123>> \o JsonMember(Text("signature"), JsonString(e.payload.signature))
                       \o <<44>>
                       \o JsonMember(Text("txData"), JsonString(e.payload.txData))
                       \o <<125>>)
          \o <<125>>

\* The header: the base64 text of the JSON text, kept as its sequence of
\* sextets with PadChar for "=".
encodeXPaymentHeader(e) == toBase64(JsonStringify(e))

\* Buffer.from(header, "base64").toString()
BufferFromBase64Mutant(header) == fromBase64(header \o <<0, 0, 0, 0>>)

BufferFromBase64(header) == fromBase64(header)

\* JSON.parse, for texts of objects whose values are strings, non-negative
\* integers and objects.  A parsed value is [kind, v]: the characters of a
\* string, the number, or the sequence of <<key, value>> members.
RECURSIVE ReadString(_, _, _)
ReadString(text, i, acc) ==
  IF i > Len(text) THEN [ok |-> FALSE, v |-> acc, next |-> i]
  ELSE IF text[i] = Quote THEN [ok |-> TRUE, v |-> acc, next |-> i + 1]
  ELSE IF text[i] = Backslash
    THEN IF i + 1 > Len(text)
           THEN [ok |-> FALSE, v |-> acc, next |-> i]
           ELSE ReadString(text, i + 2, Append(acc, text[i + 1]))
    ELSE ReadString(text, i + 1, Append(acc, text[i]))

RECURSIVE ReadNumber(_, _, _)
ReadNumber(text, i, acc) ==
  IF i <= Len(text) /\ text[i] \in 48..57
    THEN ReadNumber(text, i + 1, 10 * acc + (text[i] - 48))
    ELSE [ok |-> TRUE, v |-> acc, next |-> i]

JsonFailed(i) == [ok |-> FALSE, kind |-> "none", v |-> << >>, next |-> i]

RECURSIVE ReadValue(_, _)
RECURSIVE ReadMembers(_, _, _)
ReadValue(text, i) ==
  IF i > Len(text) THEN JsonFailed(i)
  ELSE IF text[i] = Quote
    THEN LET r == ReadString(text, i + 1, << >>) IN
           [ok |-> r.ok, kind |-> "string", v |-> r.v, next |-> r.next]
  ELSE IF text[i] = 123 THEN ReadMembers(text, i + 1, << >>)
  ELSE IF text[i] \in 48..57
    THEN LET r == ReadNumber(text, i, 0) IN
           [ok |-> TRUE, kind |-> "number", v |-> r.v, next |-> r.next]
  ELSE JsonFailed(i)

ReadMembers(text, i, acc) ==
  IF i > Len(text) THEN JsonFailed(i)
  ELSE IF text[i] = 125
    THEN [ok |-> TRUE, kind |-> "object", v |-> acc, next |-> i + 1]
  ELSE IF text[i] = 44 /\ acc # << >> THEN ReadMembers(text, i + 1, acc)
  ELSE IF text[i] # Quote THEN JsonFailed(i)
  ELSE
    LET k == ReadString(text, i + 1, << >>) IN
      IF ~k.ok \/ k.next > Len(text) \/ text[k.next] # 58 THEN JsonFailed(i)
      ELSE LET val == ReadValue(text, k.next + 1) IN
             IF ~val.ok THEN JsonFailed(i)
             ELSE ReadMembers(text, val.next,
                    Append(acc, <<k.v, [kind |-> val.kind, v |-> val.v]>>))

JsonParse(text) ==
  LET r == ReadValue(text, 1) IN
    IF r.ok /\ r.next = Len(text) + 1
      THEN [ok |-> TRUE, kind |-> r.kind, v |-> r.v]
      ELSE [ok |-> FALSE, kind |-> "none", v |-> << >>]

\* decoded.<key> of a parsed object: the member's value, or undefined.
Undefined == [kind |-> "undefined", v |-> << >>]

Member(object, key) ==
  IF object.kind = "object" /\ \E i \in 1..Len(object.v) : object.v[i][1] = key
    THEN object.v[CHOOSE i \in 1..Len(object.v) : object.v[i][1] = key][2]
    ELSE Undefined

\* const decoded = JSON.parse(Buffer.from(header, "base64").toString())
DecodeHeader(header) == JsonParse(BufferFromBase64(header))

\* The parsed value of an envelope: what decoding must give back.
ParsedEnvelope(e) ==
  [ok |-> TRUE, kind |-> "object",
   v |-> << <<Text("x402Version"), [kind |-> "number", v |-> e.x402Version]>>,
            <<Text("scheme"), [kind |-> "string", v |-> e.scheme]>>,
            <<Text("network"), [kind |-> "string", v |-> e.network]>>,
            <<Text("payload"),
              [kind |-> "object",
               v |-> << <<Text("signature"),
                          [kind |-> "string", v |-> e.payload.signature]>>,
                        <<Text("txData"),
                          [kind |-> "string", v |-> e.payload.txData]>> >>]>> >>]

MaxStringLen == 2

MaxVersion == 2

\* Characters of the strings tried: a base64 letter, "=", the quote and the
\* backslash.
Texts == UNION {[1..n -> {65, 61, Quote, Backslash}] : n \in 0..MaxStringLen}

Envelopes ==
  [ x402Version : 1..MaxVersion,
    scheme      : {Text("exact")},
    network     : {Text(n) : n \in HeaderNetworks},
    payload     : [signature : Texts, txData : Texts] ]

ReadyCodec ==
  [pc |-> "idle", envelope |-> << >>, header |-> << >>, decoded |-> << >>]

\* An envelope is encoded into a header.
EncodeHeader ==
  /\ hc.pc = "idle"
  /\ \E e \in Envelopes :
       hc' = [hc EXCEPT !.pc = "encoded", !.envelope = e,
                        !.header = encodeXPaymentHeader(e)]
  /\ UNCHANGED <<req, sg, vs, fac, ph, call>>

\* The receiver decodes the header.
DecodeStep ==
  /\ hc.pc = "encoded"
  /\ hc' = [hc EXCEPT !.pc = "decoded", !.decoded = DecodeHeader(hc.header)]
  /\ UNCHANGED <<req, sg, vs, fac, ph, call>>

InitCodec ==
  /\ req = [r \in Requests |-> IdleRequest]
  /\ sg = IdleSign
  /\ vs = IdleSig
  /\ fac = IdleFac
  /\ ph = [pc |-> "off"]
  /\ hc = ReadyCodec
  /\ call = [pc |-> "off"]

NextCodec ==
  \/ EncodeHeader
  \/ DecodeStep

SpecCodec == InitCodec /\ [][NextCodec]_vars

(***************************************************************************)
(* Claims about the header codec                                           *)
(***************************************************************************)

\* C19: for every payload {x402Version, scheme, network, payload:
\* {signature, txData}}, base64-decoding and JSON-parsing the header that
\* encoding produced yields the same value in every field, signature and
\* txData character for character.
C19_HeaderRoundTrip ==
  hc.pc = "decoded" =>
    /\ hc.decoded = ParsedEnvelope(hc.envelope)
    /\ Member(Member(hc.decoded, Text("payload")), Text("signature")).v
         = hc.envelope.payload.signature
    /\ Member(Member(hc.decoded, Text("payload")), Text("txData")).v
         = hc.envelope.payload.txData

\* A header whose signature holds a quote and whose txData holds a backslash
\* and "=" has been decoded.
C19_Witness ==
  /\ hc.pc = "decoded"
  /\ hc.envelope.payload.signature = <<65, Quote>>
  /\ hc.envelope.payload.txData = <<Backslash, 61>>
  /\ hc.decoded.ok

(***************************************************************************)
(* Part 6.  schemes/exact/sui/client.ts: createPaymentHeader               *)
(***************************************************************************)

\* The signer as createPaymentHeader inspects it: getAddress and
\* getPublicKey (absent, a non-callable member, a function) and the signing
\* members of Part 2.  Of the signing shapes, those are tried where the two
\* message members go together and only a callable signTransaction can sign.
HeaderSigners ==
  [ getAddress   : {"absent", "value", "function"},
    getPublicKey : {"absent", "value", "function"},
    sign         : {s \in SignerShapes :
                      /\ s.signPersonalMessage = s.signMessage
                      /\ s.signs => s.signTransaction = "function"} ]

\* config?.suiConfig?.rpcUrl: undefined, the empty string, a URL.
RpcUrlConfigs == {"undefined", "", "https://custom.rpc"}

NativeAssets ==
  {"undefined", "0x2::sui::SUI",
   "0x0000000000000000000000000000000000000000000000000000000000000002::sui::SUI"}

CustomAsset == "0xabcdef::usdc::USDC"

\* maxAmountRequired and the balances of the sender's coins that are tried.
HeaderAmounts == {1000, 10000}

CoinBalances == {500, 1000, 5000}

MaxHoldings == 2

\* coins.data of client.getCoins: the balances of the coins, in list order.
Holdings == UNION {[1..n -> CoinBalances] : n \in 0..MaxHoldings}

\* What a wallet's signTransaction resolves with: {signature, bytes}.
SignerResults ==
  { [signature |-> <<65, 65>>, bytes |-> <<65, 61>>],
    [signature |-> <<65>>, bytes |-> <<61, 61>>] }

\* getFullnodeUrl of @mysten/sui/client
getFullnodeUrl(net) ==
  IF net = "mainnet" THEN "https://fullnode.mainnet.sui.io:443"
  ELSE "https://fullnode.testnet.sui.io:443"

\* 1. Setup RPC client: the url the SuiClient is constructed with.
ResolveRpcUrlMutant(network, configured) ==
  getFullnodeUrl(IF network = "sui" THEN "mainnet" ELSE "testnet")

ResolveRpcUrlByFamily(network, configured) ==
  IF configured \notin {"undefined", ""}
    THEN configured
    ELSE getFullnodeUrl(IF network = "sui-testnet" THEN "testnet" ELSE "mainnet")

ResolveRpcUrl(network, configured) ==
  IF configured \notin {"undefined", ""}
    THEN configured
    ELSE getFullnodeUrl(IF network = "sui" THEN "mainnet" ELSE "testnet")

\* 3. Determine sender address: which member of the signer is used.
SenderResolutionMutant(signer) ==
  IF signer.getPublicKey # "absent" THEN "getPublicKey"
  ELSE IF signer.getAddress = "function" THEN "getAddress"
  ELSE "none"

SenderResolution(signer) ==
  IF signer.getAddress = "function" THEN "getAddress"
  ELSE IF signer.getPublicKey # "absent" THEN "getPublicKey"
  ELSE "none"

isSui(asset) == asset \in NativeAssets

\* coins.data.find(c => BigInt(c.balance) >= amount): the position of the
\* coin found, 0 for undefined.
SelectCoinMutant(holdings, amount) ==
  LET enough == {i \in 1..Len(holdings) : holdings[i] >= amount} IN
    IF enough = {} THEN 0
    ELSE CHOOSE i \in enough : \A j \in enough : holdings[i] >= holdings[j]

SelectCoin(holdings, amount) ==
  LET enough == {i \in 1..Len(holdings) : holdings[i] >= amount} IN
    IF enough = {} THEN 0 ELSE CHOOSE i \in enough : \A j \in enough : i <= j

NoCoinsMessage(asset) == <<"No coins found for asset ", asset>>

InsufficientMessage(asset) == <<"Insufficient balance for asset ", asset>>

\* "signTransaction" in signer && typeof signer.signTransaction === "function"
UsesDirectSigningMutant(signer) == signer.sign.signTransaction # "absent"

UsesDirectSigningNever(signer) == FALSE

UsesDirectSigning(signer) == signer.sign.signTransaction = "function"

\* const payload: ExactSuiPayload = { signature, txData: txBytes }
ExactSuiPayloadMutant(signature, txBytes) ==
  [signature |-> txBytes, txData |-> signature]

ExactSuiPayload(signature, txBytes) ==
  [signature |-> signature, txData |-> txBytes]

\* The envelope handed to encodeXPaymentHeader.
HeaderEnvelope(x402Version, network, payload) ==
  [ x402Version |-> x402Version,
    scheme      |-> Text("exact"),
    network     |-> Text(network),
    payload     |-> payload ]

\* The transaction under construction: coin is 0 for tx.gas, the position
\* in coins.data of the coin object otherwise, -1 while not chosen.
NoTransaction ==
  [sender |-> "none", gasOwner |-> "none", coin |-> -1, amount |-> 0,
   recipient |-> "none"]

ReadyHeader ==
  [ pc            |-> "idle",
    signer        |-> [getAddress |-> "absent", getPublicKey |-> "absent",
                      sign |-> IdleSigner],
    x402Version   |-> 0,
    network       |-> "none",
    rpcUrlConfig  |-> "undefined",
    asset         |-> "undefined",
    amount        |-> 0,
    feePayer      |-> FALSE,
    clientUrl     |-> "none",
    tx            |-> NoTransaction,
    getCoinsCalls |-> 0,
    coinsKnown    |-> FALSE,
    holdings      |-> << >>,
    directCalls   |-> 0,
    fallbackCalls |-> 0,
    signArg       |-> "none",
    signed        |-> [signature |-> << >>, bytes |-> << >>],
    header        |-> << >>,
    error         |-> << >> ]

\* The call rejects with the given error.
HeaderFailsMutant(st, error) == [st EXCEPT !.pc = "sign", !.error = error]

HeaderFails(st, error) == [st EXCEPT !.pc = "done", !.error = error]

\* 5. the transfer commands: splitCoins(coinToSplit, [amount]) and
\* transferObjects([coin], recipient)
AddTransfer(st, coin) ==
  [st EXCEPT !.pc = "sign",
             !.tx = [@ EXCEPT !.coin = coin, !.amount = st.amount,
                              !.recipient = "payTo"]]

\* 4. Create transaction, once the sender is known: the native asset is
\* split from the gas coin, another asset needs the sender's coins.
AfterSender(st, sender) ==
  LET begun == [st EXCEPT !.tx = [@ EXCEPT !.sender = sender,
                                     !.gasOwner = IF st.feePayer
                                                    THEN "feePayer" ELSE sender]]
  IN  IF isSui(st.asset) THEN AddTransfer(begun, 0)
      ELSE [begun EXCEPT !.pc = "getCoins"]

\* The sum of the balances of a list of coins.
RECURSIVE TotalBalance(_)
TotalBalance(holdings) ==
  IF Len(holdings) = 0 THEN 0
  ELSE Head(holdings) + TotalBalance(Tail(holdings))

\* The coin selection on the holdings client.getCoins resolved with.
AfterCoinsMutant(st, holdings) ==
  LET got == [st EXCEPT !.getCoinsCalls = @ + 1, !.coinsKnown = TRUE,
                        !.holdings = holdings]
  IN  IF Len(holdings) = 0 THEN HeaderFails(got, NoCoinsMessage(st.asset))
      ELSE IF TotalBalance(holdings) < st.amount
        THEN HeaderFails(got, InsufficientMessage(st.asset))
        ELSE AddTransfer(got, 1)

AfterCoins(st, holdings) ==
  LET got == [st EXCEPT !.getCoinsCalls = @ + 1, !.coinsKnown = TRUE,
                        !.holdings = holdings]
  IN  IF Len(holdings) = 0 THEN HeaderFails(got, NoCoinsMessage(st.asset))
      ELSE IF SelectCoin(holdings, st.amount) = 0
        THEN HeaderFails(got, InsufficientMessage(st.asset))
        ELSE AddTransfer(got, SelectCoin(holdings, st.amount))

\* 7. Create payment payload, 8. Encode and return.
ReturnHeader(st, signature, txBytes) ==
  [st EXCEPT !.pc = "done",
             !.header = encodeXPaymentHeader(
                          HeaderEnvelope(st.x402Version, st.network,
                                         ExactSuiPayload(signature, txBytes)))]

\* createPaymentHeader is called; the RPC client is set up.
HeaderInvoke ==
  /\ ph.pc = "idle"
  /\ \E s \in HeaderSigners, v \in 1..MaxVersion, n \in HeaderNetworks,
        u \in RpcUrlConfigs, a \in NativeAssets \cup {CustomAsset}, m \in HeaderAmounts,
        f \in BOOLEAN :
       ph' = [ph EXCEPT !.pc = "resolveSender", !.signer = s,
                        !.x402Version = v, !.network = n, !.rpcUrlConfig = u,
                        !.asset = a, !.amount = m, !.feePayer = f,
                        !.clientUrl = ResolveRpcUrl(n, u)]
  /\ UNCHANGED <<req, sg, vs, fac, hc, call>>

\* The sender address is determined and the transaction is begun.
ResolveSender ==
  /\ ph.pc = "resolveSender"
  /\ LET how == SenderResolution(ph.signer) IN
       \/ /\ how = "getAddress"
          /\ \E resolves \in BOOLEAN :
               ph' = IF resolves
                       THEN AfterSender(ph, "getAddress()")
                       ELSE HeaderFails(ph, <<"getAddress rejected">>)
       \/ /\ how = "getPublicKey"
          /\ ph' = IF ph.signer.getPublicKey = "function"
                     THEN AfterSender(ph, "getPublicKey().toSuiAddress()")
                     ELSE HeaderFails(ph, <<"TypeError">>)
       \/ /\ how = "none"
          /\ ph' = HeaderFails(ph,
                     <<"Invalid Signer: Cannot determine sender address">>)
  /\ UNCHANGED <<req, sg, vs, fac, hc, call>>

\* client.getCoins resolves with the sender's coins of the asset, or rejects.
GetCoins ==
  /\ ph.pc = "getCoins"
  /\ \/ \E h \in Holdings : ph' = AfterCoins(ph, h)
     \/ ph' = HeaderFails([ph EXCEPT !.getCoinsCalls = @ + 1],
                          <<"getCoins rejected">>)
  /\ UNCHANGED <<req, sg, vs, fac, hc, call>>

\* 6. Sign, wallet branch: signer.signTransaction(tx)
SignDirect ==
  /\ ph.pc = "sign"
  /\ UsesDirectSigning(ph.signer)
  /\ LET called == [ph EXCEPT !.directCalls = @ + 1,
                              !.signArg = "transaction"]
     IN  IF ph.signer.sign.signs
           THEN \E r \in SignerResults :
                  ph' = ReturnHeader([called EXCEPT !.signed = r],
                                     r.signature, r.bytes)
           ELSE ph' = HeaderFails(called, <<"signer error">>)
  /\ UNCHANGED <<req, sg, vs, fac, hc, call>>

\* 6. Sign, keypair branch: signAndSimulateTransaction(signer, tx, client)
SignFallback ==
  /\ ph.pc = "sign"
  /\ ~UsesDirectSigning(ph.signer)
  /\ ph' = [ph EXCEPT !.pc = "awaitSign", !.fallbackCalls = @ + 1]
  /\ sg' = [ReadySign EXCEPT !.fn = "signAndSimulateTransaction",
                             !.signer = ph.signer.sign,
                             !.pc = "simulateBuild"]
  /\ UNCHANGED <<req, vs, fac, hc, call>>

\* What signTransactionWithSigner resolves with, if it does.
HelperResult == [signature |-> <<65, 61>>, bytes |-> <<61, 65>>]

\* signAndSimulateTransaction has settled: its rejection propagates, its
\* result is encoded.
FallbackReturns ==
  /\ ph.pc = "awaitSign"
  /\ sg.pc = "done"
  /\ ph' = IF sg.error # "none"
             THEN HeaderFails(ph, <<sg.error>>)
             ELSE ReturnHeader([ph EXCEPT !.signed = HelperResult],
                               HelperResult.signature, HelperResult.bytes)
  /\ UNCHANGED <<req, sg, vs, fac, hc, call>>

InitHeader ==
  /\ req = [r \in Requests |-> IdleRequest]
  /\ sg = IdleSign
  /\ vs = IdleSig
  /\ fac = IdleFac
  /\ ph = ReadyHeader
  /\ hc = [pc |-> "off"]
  /\ call = [pc |-> "off"]

NextHeader ==
  \/ HeaderInvoke
  \/ ResolveSender
  \/ GetCoins
  \/ SignDirect
  \/ SignFallback
  \/ SimulateBuild
  \/ DryRun
  \/ SignBuild
  \/ Sign
  \/ FallbackReturns

SpecHeader == InitHeader /\ [][NextHeader]_vars

(***************************************************************************)
(* Claims about createPaymentHeader                                        *)
(***************************************************************************)

\* The sender's coins of a non-native asset have been fetched.
CoinsFetched ==
  /\ ph.coinsKnown
  /\ ph.asset = "0xabcdef::usdc::USDC"

\* Some coin of the fetched list covers the amount.
SomeCoinSuffices ==
  \E i \in 1..Len(ph.holdings) : ph.holdings[i] >= ph.amount

\* The coin selected is the first one of the list that covers the amount,
\* and the call did not fail in the selection.
FirstSufficientCoinUsed ==
  /\ ph.tx.coin \in 1..Len(ph.holdings)
  /\ ph.holdings[ph.tx.coin] >= ph.amount
  /\ \A j \in 1..(ph.tx.coin - 1) : ph.holdings[j] < ph.amount
  /\ ph.error # <<"no_coins_found">>
  /\ ph.error # <<"insufficient_balance">>
  /\ ph.error # <<"No coins found for asset ", ph.asset>>
  /\ ph.error # <<"Insufficient balance for asset ", ph.asset>>

C17_NetworkDefaulting ==
  ph.pc # "idle" =>
    /\ (ph.rpcUrlConfig = "undefined" /\ ph.network = "sui") =>
         ph.clientUrl = "https://fullnode.mainnet.sui.io:443"
    /\ (ph.rpcUrlConfig = "undefined" /\ ph.network = "sui-testnet") =>
         ph.clientUrl = "https://fullnode.testnet.sui.io:443"
    /\ (ph.rpcUrlConfig = "https://custom.rpc") =>
         ph.clientUrl = "https://custom.rpc"

\* A call for network "sui" with an explicit rpcUrl has set up its client.
C17_Witness ==
  /\ ph.pc = "resolveSender"
  /\ ph.network = "sui"
  /\ ph.rpcUrlConfig = "https://custom.rpc"
  /\ ph.clientUrl = "https://custom.rpc"

\* createPaymentHeader has returned a header.
HeaderReturned ==
  /\ ph.pc = "done"
  /\ ph.error = << >>

TESTNET_RPC_URL == <<"h", "t", "t", "p", "s", "://fullnode.testnet.sui.io:443">>

MAINNET_RPC_URL == <<"h", "t", "t", "p", "s", "://fullnode.mainnet.sui.io:443">>

TESTNET_WS_URL == <<"w", "s", "s", "://fullnode.testnet.sui.io:443">>

MAINNET_WS_URL == <<"w", "s", "s", "://fullnode.mainnet.sui.io:443">>

MaxUrlLen == 5

\* The url arguments tried: undefined (not given), or a string, the empty one
\* included.
RpcUrls ==
  [ given : {TRUE},
    text  : UNION {[1..n -> {"h", "t", "p", "s", "x"}] : n \in 0..MaxUrlLen} ]
  \cup {[given |-> FALSE, text |-> << >>]}

RpcNetworks == {"sui", "sui-testnet", "sui-devnet", "base"}

\* url ? ... : ...
Truthy(url) == url.given /\ url.text # << >>

\* url.startsWith(prefix)
StartsWith(url, prefix) ==
  Len(url) >= Len(prefix) /\ SubSeq(url, 1, Len(prefix)) = prefix

\* url.replace(pattern, by): the first occurrence is replaced.
Replace(url, pattern, by) ==
  LET at == {i \in 1..(Len(url) - Len(pattern) + 1) :
               SubSeq(url, i, i + Len(pattern) - 1) = pattern}
  IN  IF at = {} THEN url
      ELSE LET i == CHOOSE j \in at : \A k \in at : j <= k IN
             SubSeq(url, 1, i - 1) \o by
               \o SubSeq(url, i + Len(pattern), Len(url))

httpToWsMutant(url) == Replace(url, <<"h", "t", "t", "p">>, <<"w", "s">>)

httpToWs(url) ==
  IF StartsWith(url, <<"h", "t", "t", "p">>)
    THEN Replace(url, <<"h", "t", "t", "p">>, <<"w", "s">>)
    ELSE url

\* The client a function returns, or the error it throws.
RpcClient(url) == [client |-> TRUE, url |-> url, error |-> "none"]

RpcThrows(message) == [client |-> FALSE, url |-> << >>, error |-> message]

createTestnetRpcClient(url) ==
  RpcClient(IF Truthy(url) THEN url.text ELSE TESTNET_RPC_URL)

createMainnetRpcClient(url) ==
  RpcClient(IF Truthy(url) THEN url.text ELSE MAINNET_RPC_URL)

getRpcClientMutant(network, url) ==
  IF network = "sui" THEN createMainnetRpcClient(url)
  ELSE createTestnetRpcClient(url)

getRpcClient(network, url) ==
  IF network = "sui-testnet" THEN createTestnetRpcClient(url)
  ELSE IF network = "sui" THEN createMainnetRpcClient(url)
  ELSE RpcThrows("Invalid network")

getRpcSubscriptions(network, url) ==
  IF network = "sui-testnet"
    THEN RpcClient(IF Truthy(url) THEN httpToWs(url.text) ELSE TESTNET_WS_URL)
  ELSE IF network = "sui"
    THEN RpcClient(IF Truthy(url) THEN httpToWs(url.text) ELSE MAINNET_WS_URL)
  ELSE RpcThrows("Invalid network")

\* A caller asks for an RPC client or for a subscriptions client.
CallGetRpcClient ==
  /\ call.pc = "idle"
  /\ \E n \in RpcNetworks, u \in RpcUrls :
       call' = [pc |-> "done", fn |-> "getRpcClient", network |-> n,
                url |-> u, result |-> getRpcClient(n, u)]
  /\ UNCHANGED <<req, sg, vs, fac, ph, hc>>

CallGetRpcSubscriptions ==
  /\ call.pc = "idle"
  /\ \E n \in RpcNetworks, u \in RpcUrls :
       call' = [pc |-> "done", fn |-> "getRpcSubscriptions", network |-> n,
                url |-> u, result |-> getRpcSubscriptions(n, u)]
  /\ UNCHANGED <<req, sg, vs, fac, ph, hc>>

InitCall ==
  /\ req = [r \in Requests |-> IdleRequest]
  /\ sg = IdleSign
  /\ vs = IdleSig
  /\ fac = IdleFac
  /\ ph = [pc |-> "off"]
  /\ hc = [pc |-> "off"]
  /\ call = [pc |-> "idle"]

NextRpc ==
  \/ CallGetRpcClient
  \/ CallGetRpcSubscriptions

SpecRpc == InitCall /\ [][NextRpc]_vars

(***************************************************************************)
(* Claims about the RPC clients                                            *)
(***************************************************************************)

\* A url was given to the call.
UrlGiven == call.url.given /\ call.url.text # << >>

\* C23: getRpcClient(network, url): for "sui-testnet" the client's url is url
\* if given, else the testnet default; for "sui" it is url if given, else the
\* mainnet default; for every other network it throws "Invalid network" and
\* creates no client.
C23_GetRpcClient ==
  (call.pc = "done" /\ call.fn = "getRpcClient") =>
    /\ (call.network = "sui-testnet") =>
         /\ call.result.client /\ call.result.error = "none"
         /\ call.result.url =
              IF UrlGiven THEN call.url.text
              ELSE <<"h", "t", "t", "p", "s", "://fullnode.testnet.sui.io:443">>
    /\ (call.network = "sui") =>
         /\ call.result.client /\ call.result.error = "none"
         /\ call.result.url =
              IF UrlGiven THEN call.url.text
              ELSE <<"h", "t", "t", "p", "s", "://fullnode.mainnet.sui.io:443">>
    /\ (call.network \notin {"sui", "sui-testnet"}) =>
         /\ ~call.result.client
         /\ call.result.error = "Invalid network"

\* getRpcClient was called for a network other than the two Sui ones, with a
\* url, and threw.
C23_Witness ==
  /\ call.pc = "done" /\ call.fn = "getRpcClient"
  /\ call.network = "sui-devnet"
  /\ UrlGiven
  /\ call.result.error = "Invalid network"

\* C24: getRpcSubscriptions(network, url): with no url the wss default of the
\* network; with a url that starts with "http" that url with the leading
\* "http" replaced by "ws"; with any other url the url unchanged; for every
\* network other than "sui" and "sui-testnet" it throws "Invalid network".
C24_GetRpcSubscriptions ==
  (call.pc = "done" /\ call.fn = "getRpcSubscriptions") =>
    IF call.network \in {"sui", "sui-testnet"}
      THEN /\ call.result.client /\ call.result.error = "none"
           /\ call.result.url =
                IF ~UrlGiven
                  THEN <<"w", "s", "s",
                         IF call.network = "sui"
                           THEN "://fullnode.mainnet.sui.io:443"
                           ELSE "://fullnode.testnet.sui.io:443">>
                ELSE IF Len(call.url.text) >= 4
                        /\ call.url.text[1] = "h" /\ call.url.text[2] = "t"
                        /\ call.url.text[3] = "t" /\ call.url.text[4] = "p"
                  THEN <<"w", "s">>
                         \o SubSeq(call.url.text, 5, Len(call.url.text))
                  ELSE call.url.text
      ELSE /\ ~call.result.client
           /\ call.result.error = "Invalid network"

\* A url with "http" inside but not in front was passed through unchanged.
C24_Witness ==
  /\ call.pc = "done" /\ call.fn = "getRpcSubscriptions"
  /\ call.network = "sui"
  /\ call.url.text = <<"x", "h", "t", "t", "p">>
  /\ call.result.url = call.url.text

(***************************************************************************)
(* Part 8.  types/shared/sui/regex.ts: the address patterns                *)
(***************************************************************************)

HexChars ==
  {"0", "1", "2", "3", "4", "5", "6", "7", "8", "9",
   "a", "b", "c", "d", "e", "f", "A", "B", "C", "D", "E", "F"}

\* A pattern is a sequence of items [chars, min, max]: between min and max
\* characters of the set.  Whether the items from the k-th on match the text
\* from position i on, up to its end when anchored.
RECURSIVE MatchFrom(_, _, _, _, _)
MatchFrom(pattern, k, text, i, anchored) ==
  IF k > Len(pattern)
    THEN (anchored => i = Len(text) + 1)
    ELSE \E c \in pattern[k].min..pattern[k].max :
           /\ i + c - 1 <= Len(text)
           /\ \A j \in i..(i + c - 1) : text[j] \in pattern[k].chars
           /\ MatchFrom(pattern, k + 1, text, i + c, anchored)

\* /^0x[a-fA-F0-9]{1,64}$/.test(text)
SuiAddressRegexMutant(text) ==
  MatchFrom(<< [chars |-> {"0"}, min |-> 1, max |-> 1],
               [chars |-> {"x"}, min |-> 1, max |-> 1],
               [chars |-> HexChars, min |-> 1, max |-> 64] >>, 1, text, 1, FALSE)

SuiAddressRegex(text) ==
  MatchFrom(<< [chars |-> {"0"}, min |-> 1, max |-> 1],
               [chars |-> {"x"}, min |-> 1, max |-> 1],
               [chars |-> HexChars, min |-> 1, max |-> 64] >>, 1, text, 1, TRUE)

\* /^0x[a-fA-F0-9]{64}$/.test(text)
SuiFullAddressRegex(text) ==
  MatchFrom(<< [chars |-> {"0"}, min |-> 1, max |-> 1],
               [chars |-> {"x"}, min |-> 1, max |-> 1],
               [chars |-> HexChars, min |-> 64, max |-> 64] >>, 1, text, 1, TRUE)

\* The strings tried: a prefix, a run of one character with at most one
\* other character put into it, and an ending.
AddressTexts ==
  { prefix \o [i \in 1..n |-> IF i = at THEN other ELSE fill] \o ending :
      prefix \in {<<"0", "x">>, <<"0", "X">>, <<"x">>, << >>, <<"0">>},
      n \in {0, 1, 2, 63, 64, 65},
      fill \in {"0", "a", "F"},
      other \in {"9", "A", "g", " ", "x"},
      at \in {0, 1, 2, 64},
      ending \in {<< >>, <<"\n">>} }

\* Both patterns are tested on a string.
TestAddress ==
  /\ call.pc = "idle"
  /\ \E t \in AddressTexts :
       call' = [pc |-> "done", fn |-> "regex", text |-> t,
                address |-> SuiAddressRegex(t), full |-> SuiFullAddressRegex(t)]
  /\ UNCHANGED <<req, sg, vs, fac, ph, hc>>

NextRegex ==
  \/ TestAddress

SpecRegex == InitCall /\ [][NextRegex]_vars

\* The tested string is "0x" followed by hexadecimal characters only.
PrefixedHex ==
  /\ Len(call.text) >= 2
  /\ call.text[1] = "0" /\ call.text[2] = "x"
  /\ \A i \in 3..Len(call.text) :
       call.text[i] \in {"0", "1", "2", "3", "4", "5", "6", "7", "8", "9",
                         "a", "b", "c", "d", "e", "f",
                         "A", "B", "C", "D", "E", "F"}

\* C25: SuiAddressRegex accepts exactly the strings "0x" + 1 to 64
\* hexadecimal characters of either case, SuiFullAddressRegex exactly those
\* with 64; so what the full pattern accepts the other accepts, and 0, 63
\* (full only) or 65 hex characters, a missing or uppercase prefix and a
\* non-hex character are rejected.
C25_AddressPatterns ==
  (call.pc = "done" /\ call.fn = "regex") =>
    /\ call.address = (PrefixedHex /\ Len(call.text) - 2 \in 1..64)
    /\ call.full = (PrefixedHex /\ Len(call.text) - 2 = 64)
    /\ call.full => call.address

\* A string of "0x" and 63 hexadecimal characters of mixed case was accepted
\* by the short pattern and rejected by the full one.
C25_Witness ==
  /\ call.pc = "done" /\ call.fn = "regex"
  /\ Len(call.text) = 65
  /\ call.text[3] = "a" /\ call.text[4] = "A"
  /\ call.address /\ ~call.full

(***************************************************************************)
(* Part 9.  shared/sui/transaction.ts: decodeTransactionFromPayload        *)
(***************************************************************************)

\* Transaction.from(bytes): the transaction, or a throw for bytes that are
\* no serialized transaction.
TransactionFrom(bytes) ==
  IF Len(bytes) = 4
    THEN [threw |-> "none",
          tx |-> [sender |-> bytes[1], payTo |-> bytes[2],
                  amount |-> bytes[3] + 256 * bytes[4]]]
    ELSE [threw |-> "deserialization error", tx |-> << >>]

\* The catch block: whatever was thrown, the error thrown on is this one.
DecodeFailedMutant(thrown) == [threw |-> thrown, tx |-> << >>]

DecodeFailed(thrown) ==
  [threw |-> "invalid_exact_sui_payload_transaction", tx |-> << >>]

decodeTransactionFromPayload(suiPayload) ==
  IF ~IsBase64(suiPayload.txData) THEN DecodeFailed("base64 error")
  ELSE LET from == TransactionFrom(fromBase64(suiPayload.txData)) IN
         IF from.threw # "none" THEN DecodeFailed(from.threw) ELSE from

MaxTxDataBytes == 4

\* The txData strings tried: the base64 of short byte strings, and strings
\* that are not base64.
TxDataTexts ==
  {toBase64(b) : b \in UNION {[1..n -> {0, 1, 187, 232, 3}] :
                                  n \in 0..MaxTxDataBytes}}
  \cup MalformedStrings

DecodePayload ==
  /\ call.pc = "idle"
  /\ \E t \in TxDataTexts :
       call' = [pc |-> "done", fn |-> "decodeTransactionFromPayload",
                txData |-> t,
                result |-> decodeTransactionFromPayload(
                             [signature |-> << >>, txData |-> t])]
  /\ UNCHANGED <<req, sg, vs, fac, ph, hc>>

NextDecode ==
  \/ DecodePayload

SpecDecode == InitCall /\ [][NextDecode]_vars

\* C26: decodeTransactionFromPayload returns the transaction decoded from
\* txData or throws an error whose message is exactly
\* invalid_exact_sui_payload_transaction; no base64 and no deserialization
\* error escapes it.
C26_DecodeFailureIsTyped ==
  (call.pc = "done" /\ call.fn = "decodeTransactionFromPayload") =>
    /\ call.result.threw \in {"none", "invalid_exact_sui_payload_transaction"}
    /\ (call.result.threw = "none") =>
         /\ IsBase64(call.txData)
         /\ toBase64(<<call.result.tx.sender, call.result.tx.payTo,
                       call.result.tx.amount % 256,
                       call.result.tx.amount \div 256>>) = call.txData
    /\ (call.result.threw # "none") => call.result.tx = << >>

\* A base64 string whose bytes are no transaction was refused with the typed
\* error.
C26_Witness ==
  /\ call.pc = "done" /\ call.fn = "decodeTransactionFromPayload"
  /\ IsBase64(call.txData)
  /\ Len(fromBase64(call.txData)) = 3
  /\ call.result.threw = "invalid_exact_sui_payload_transaction"

(***************************************************************************)
(* Further claims about createPaymentHeader                                *)
(***************************************************************************)

\* Nothing was asked of the signer and no simulation was run.
NothingSigned ==
  /\ ph.directCalls = 0 /\ ph.fallbackCalls = 0
  /\ sg = [pc |-> "off"]
  /\ ph.signed = [signature |-> << >>, bytes |-> << >>]
  /\ ph.header = << >>

\* C27: no coalescing: for a non-native asset, if every holding of the
\* sender is below maxAmountRequired the call fails with the
\* insufficient-balance error even when the holdings sum up to
\* maxAmountRequired or more, and nothing is signed or simulated.
C27_NoCoalescing ==
  ( /\ CoinsFetched
    /\ Len(ph.holdings) > 0
    /\ \A i \in 1..Len(ph.holdings) : ph.holdings[i] < ph.amount ) =>
      /\ ph.pc = "done"
      /\ ph.error = InsufficientMessage(ph.asset)
      /\ ph.tx.coin = -1
      /\ NothingSigned

\* Two coins of 500 together cover the 1000 asked for, and the call has
\* failed for insufficient balance.
C27_Witness ==
  /\ CoinsFetched
  /\ ph.amount = 1000
  /\ ph.holdings = <<500, 500>>
  /\ TotalBalance(ph.holdings) >= ph.amount
  /\ ph.pc = "done"
  /\ ph.error = <<"Insufficient balance for asset ", "0xabcdef::usdc::USDC">>

\* C28: a signer with a callable getAddress has its address taken from
\* getAddress, also when it has getPublicKey; otherwise a signer with
\* getPublicKey has it derived from the public key; a signer with neither
\* makes the call fail with "Invalid Signer: Cannot determine sender address"
\* before any coin query, simulation or signing.
C28_SenderResolution ==
  ph.pc \notin {"idle", "resolveSender"} =>
    /\ (ph.signer.getAddress = "function") =>
         \/ ph.tx.sender = "getAddress()"
         \/ /\ ph.tx.sender = "none"
            /\ ph.pc = "done" /\ ph.error = <<"getAddress rejected">>
    /\ (ph.signer.getAddress # "function"
          /\ ph.signer.getPublicKey = "function") =>
         ph.tx.sender = "getPublicKey().toSuiAddress()"
    /\ (ph.signer.getAddress # "function"
          /\ ph.signer.getPublicKey = "value") =>
         /\ ph.tx.sender = "none"
         /\ ph.pc = "done" /\ ph.error = <<"TypeError">>
    /\ (ph.signer.getAddress # "function"
          /\ ph.signer.getPublicKey = "absent") =>
         /\ ph.pc = "done"
         /\ ph.error = <<"Invalid Signer: Cannot determine sender address">>
         /\ ph.tx = NoTransaction
         /\ ph.getCoinsCalls = 0 /\ ~ph.coinsKnown
         /\ NothingSigned

\* A signer with both getAddress and getPublicKey got a header for the
\* address getAddress gave.
C28_Witness ==
  /\ ph.pc = "done" /\ ph.error = << >> /\ ph.header # << >>
  /\ ph.signer.getAddress = "function"
  /\ ph.signer.getPublicKey = "function"
  /\ ph.tx.sender = "getAddress()"

(***************************************************************************)
(* Further claims about the facilitator routes                             *)
(***************************************************************************)

\* POST /verify has answered with one of its three rejections that carry a
\* payer.
VerifyRejected ==
  /\ fac.pc = "done" /\ fac.body.route = "verify" /\ ~fac.threw
  /\ fac.response.reason \in {"invalid_payload", "invalid_payment_requirements",
                              "unexpected_verify_error"}

\* C29: in POST /verify the invalid_payload, invalid_payment_requirements and
\* unexpected_verify_error responses carry payer equal to
\* payload.authorization.from when the payment payload has an authorization
\* field, and the empty string otherwise, so always the empty string for Sui
\* and SVM payloads.
C29_PayerInRejections ==
  VerifyRejected =>
    /\ (fac.body.payloadShape = "authorization") => fac.response.payer = "from"
    /\ (fac.body.payloadShape # "authorization") => fac.response.payer = ""

\* verify() threw on an SVM payload, which has no authorization, and the
\* response carries the empty payer.
C29_Witness ==
  /\ VerifyRejected
  /\ fac.response.reason = "unexpected_verify_error"
  /\ fac.body.network = "solana-devnet"
  /\ fac.body.payloadShape = "transaction"
  /\ fac.response.payer = ""

(***************************************************************************)
(* Further claims about x402-next                                          *)
(***************************************************************************)

\* C30: a single-use payment payload never buys the resource twice: for any
\* interleaving of two withX402 requests carrying the same payment payload,
\* the protected handler is executed for at most one of them.
C30_SingleUsePayload ==
  \A r1, r2 \in Requests :
    ( /\ r1 # r2
      /\ req[r1].entry = "withX402" /\ req[r2].entry = "withX402"
      /\ req[r1].header \in Payloads
      /\ req[r1].header = req[r2].header ) =>
        req[r1].handlerRuns + req[r2].handlerRuns <= 1

(***************************************************************************)
(* Claims about the transaction createPaymentHeader builds                 *)
(***************************************************************************)

\* The owner of the coin the payment is split from: the gas coin belongs to
\* the gas owner, a coin of the fetched list to the sender it was fetched for.
SplitCoinOwner ==
  IF ph.tx.coin = 0 THEN ph.tx.gasOwner ELSE ph.tx.sender

\* C31: the coin that is split to pay payTo is always owned by the sender:
\* for every combination of asset (native or custom) and extra.feePayer (set
\* or unset) the amount transferred is taken from the sender's funds and
\* never from the fee payer's gas coin.
C31_PaymentFromSender ==
  (ph.pc # "off" /\ ph.tx.coin >= 0) =>
    /\ SplitCoinOwner = ph.tx.sender
    /\ SplitCoinOwner # "feePayer"

\* C32: the simulate-then-sign fallback of createPaymentHeader can never
\* produce a header: it is taken only for a signer without a callable
\* signTransaction, and for such a signer signTransactionWithSigner, reached
\* after the dry-run, fails with failed_to_sign_transaction without any
\* signing call, as both its signing branches need a signTransaction member.
C32_FallbackNeverSigns ==
  (ph.pc # "off" /\ ph.fallbackCalls = 1) =>
    /\ ph.signer.sign.signTransaction # "function"
    /\ ph.header = << >>
    /\ ph.signed = [signature |-> << >>, bytes |-> << >>]
    /\ sg.result = "none" /\ sg.signCalls = 0
    /\ (sg.pc \in {"signBuild", "sign"}) =>
         (sg.dryRunCalls = 1 /\ sg.simulateError = "none")
    /\ (sg.pc = "done") =>
         \/ sg.error = "transaction_simulation_failed" /\ sg.simulateError # "none"
         \/ /\ sg.error = "failed_to_sign_transaction"
            /\ sg.dryRunCalls = 1 /\ sg.simulateError = "none"
    /\ (ph.pc = "done") => ph.error = <<sg.error>>

\* A signer with signMessage and a signTransaction member that is not
\* callable went through a successful dry-run, and the call was rejected with
\* failed_to_sign_transaction.
C32_Witness ==
  /\ ph.pc = "done" /\ ph.fallbackCalls = 1
  /\ ph.signer.sign.signTransaction = "value"
  /\ ph.signer.sign.signMessage
  /\ sg.simulateResult = "success"
  /\ ph.error = <<"failed_to_sign_transaction">>

(***************************************************************************)
(* Claims about the result of signTransactionWithSigner                    *)
(***************************************************************************)

\* C33: the transactionBytes signTransactionWithSigner returns are always
\* the base64 of the bytes the signer signed: they equal the bytes field the
\* signer's signTransaction returned.
C33_ReturnedBytesAreSignedBytes ==
  (sg.pc = "done" /\ sg.result = "signed") =>
    sg.transactionBytes = sg.signerBytes

(***************************************************************************)
(* Claims about Sui payments at the facilitator                            *)
(***************************************************************************)

\* C34: the facilitator routes never reach verify() or settle() for a Sui
\* payment: every POST /verify or POST /settle whose
\* paymentRequirements.network is "sui" or "sui-testnet" is answered with
\* HTTP 400 invalid_network by the allow-list, before any client or key is
\* resolved.
C34_SuiNeverReachesVerifyOrSettle ==
  (fac.pc = "done" /\ fac.body.network \in {"sui", "sui-testnet"}) =>
    /\ ~fac.threw
    /\ fac.response.status = 400
    /\ fac.response.reason = "invalid_network"
    /\ fac.response.error = "unsupported"
    /\ ~fac.response.ok
    /\ \A i \in 1..Len(fac.log) : fac.log[i] \notin {"verify", "settle"}
    /\ fac.log = << >>

\* A settle request for sui-testnet with valid payload, valid requirements
\* and all keys configured was answered with 400 invalid_network.
C34_Witness ==
  /\ fac.pc = "done" /\ fac.body.route = "settle"
  /\ fac.body.network = "sui-testnet"
  /\ fac.body.payloadShape = "transaction"
  /\ fac.body.payloadValid /\ fac.body.requirementsValid
  /\ fac.body.evmKeySet /\ fac.body.svmKeySet /\ fac.body.clientCreated
  /\ fac.response.status = 400 /\ fac.response.reason = "invalid_network"

(***************************************************************************)
(* Claims about failed preconditions of createPaymentHeader                *)
(***************************************************************************)

\* The sender could not be resolved, or the sender has no coin of the
\* non-native asset, or none that covers the amount.
PreconditionFailed ==
  /\ ph.pc # "off"
  /\ ph.error \in
       { <<"Invalid Signer: Cannot determine sender address">>,
         <<"getAddress rejected">>, <<"TypeError">>,
         <<"No coins found for asset ", "0xabcdef::usdc::USDC">>,
         <<"Insufficient balance for asset ", "0xabcdef::usdc::USDC">> }

\* C35: no signature is ever requested after a failed precondition: if
\* sender resolution fails, or a non-native asset has no holdings, or no
\* holding is sufficient, the call has rejected and from then on neither
\* signer.signTransaction nor signAndSimulateTransaction is invoked and no
\* header is encoded.
C35_NoSigningAfterFailedPrecondition ==
  [](PreconditionFailed => [](ph.pc = "done" /\ NothingSigned))

\* A wallet that would have signed was never asked: the sender has no coins
\* of the asset.
C35_Witness ==
  /\ PreconditionFailed
  /\ ph.pc = "done"
  /\ ph.coinsKnown /\ ph.holdings = << >>
  /\ ph.signer.sign.signTransaction = "function" /\ ph.signer.sign.signs
  /\ ph.directCalls = 0 /\ ph.fallbackCalls = 0

(***************************************************************************)
(* Claims about requests without a payment header                          *)
(***************************************************************************)

\* C36: in paymentMiddleware, for a matching route, and in withX402, a
\* request without an X-PAYMENT header is answered by
\* handleMissingPaymentHeader, and for that request verify, the protected
\* handler and settle are never invoked.
C36_MissingHeaderStopsRequest ==
  \A r \in Requests :
    (req[r].matched /\ req[r].header = "none") =>
      /\ req[r].pc \in {"start", "done"}
      /\ (req[r].pc = "done") =>
           req[r].response = [kind |-> "paymentRequired", status |-> 402,
                              paymentResponse |-> FALSE]
      /\ req[r].verifyCalls = 0 /\ req[r].verifyResult = "none"
      /\ req[r].handlerRuns = 0
      /\ req[r].settleCalls = 0

\* One request without a header came through the middleware and one through
\* withX402, and both have been answered with 402.
C36_Witness ==
  \E r1, r2 \in Requests :
    /\ req[r1].entry = "middleware" /\ req[r1].matched
    /\ req[r2].entry = "withX402"
    /\ req[r1].header = "none" /\ req[r2].header = "none"
    /\ req[r1].pc = "done" /\ req[r2].pc = "done"
    /\ req[r1].response.kind = "paymentRequired"
    /\ req[r2].response.kind = "paymentRequired"

(***************************************************************************)
(* Claims about the network given to createPaymentHeader                   *)
(***************************************************************************)

\* C37: createPaymentHeader does not validate the network family: for every
\* paymentRequirements.network other than "sui", names of other chains
\* included, and no RPC override it uses the testnet default endpoint, raises
\* no invalid-network error, and the returned header carries that network
\* value unchanged.
C37_NetworkNotValidated ==
  ( /\ ph.pc \notin {"off", "idle"}
    /\ ph.network # "sui"
    /\ ph.rpcUrlConfig \in {"undefined", ""} ) =>
      /\ ph.clientUrl = "https://fullnode.testnet.sui.io:443"
      /\ ph.error \notin {<<"Invalid network">>, <<"invalid_network">>}
      /\ (ph.pc = "done" /\ ph.error = << >>) =>
           /\ DecodeHeader(ph.header).ok
           /\ Member(DecodeHeader(ph.header), Text("network"))
                = [kind |-> "string", v |-> Text(ph.network)]

\* A header for network "base-sepolia" was returned, made with the testnet
\* endpoint.
C37_Witness ==
  /\ ph.pc = "done" /\ ph.error = << >> /\ ph.header # << >>
  /\ ph.network = "base-sepolia"
  /\ ph.rpcUrlConfig = "undefined"
  /\ ph.clientUrl = "https://fullnode.testnet.sui.io:443"

(***************************************************************************)
(* Claims about the wallets isSignerWallet accepts                         *)
(***************************************************************************)

\* isSignerWallet of shared/sui/wallet.ts, for a wallet that is an object
isSignerWallet(wallet) ==
  \/ wallet.getPublicKey = "function"
  \/ wallet.sign.signTransaction = "function"

\* C38: every wallet accepted by isSignerWallet is usable by
\* createPaymentHeader for sender resolution: for any object for which
\* isSignerWallet returns true, createPaymentHeader does not fail with
\* "Invalid Signer: Cannot determine sender address".
C38_AcceptedWalletResolves ==
  (ph.pc \notin {"off", "idle"} /\ isSignerWallet(ph.signer)) =>
    ph.error # <<"Invalid Signer: Cannot determine sender address">>

(***************************************************************************)
(* Claims about the bytes after the serialized signature                   *)
(***************************************************************************)

\* Byte strings appended after the first 97 bytes of a signature.
TrailingBytes == {<< >>, <<0>>, <<255, 1, 2>>, <<0, 0, 0, 0>>}

\* The signatures that agree with the verified one on their first 97 bytes.
SameFirst97 ==
  {toBase64(Slice(fromBase64(vs.payload.signature), 0, 97) \o t) :
     t \in TrailingBytes}

\* C39: verifyTransactionSignature ignores every byte after the 97th: two
\* signatures that agree on their first 97 bytes get the same result for the
\* same txData and expectedSigner, so a valid 97-byte signature with
\* trailing bytes appended is still accepted.
C39_TrailingBytesIgnored ==
  ( /\ vs.pc = "done"
    /\ vs.given.kind = "bytes"
    /\ vs.given.len >= 97 ) =>
      /\ \A other \in SameFirst97, libraryThrows \in BOOLEAN :
           verifyTransactionSignature(
             [signature |-> other, txData |-> vs.payload.txData],
             vs.expectedSigner, libraryThrows) = vs.result
      /\ ( /\ vs.given.flag = 0
           /\ vs.given.signedBy = vs.given.key
           /\ vs.given.msg = vs.txGiven
           /\ toSuiAddress(PublicKeyBytes(vs.given.key)) = vs.expectedSigner ) =>
             vs.result.value = TRUE

\* A signature of 100 bytes, whose last three bytes are no part of key or
\* signature, was accepted like its first 97 bytes alone.
C39_Witness ==
  /\ vs.pc = "done"
  /\ Len(fromBase64(vs.payload.signature)) = 100
  /\ fromBase64(vs.payload.signature)[98] # 0
  /\ vs.result.value = TRUE
  /\ verifyTransactionSignature(
       [signature |-> toBase64(Slice(fromBase64(vs.payload.signature), 0, 97)),
        txData |-> vs.payload.txData],
       vs.expectedSigner, FALSE).value = TRUE

====
